---------------------------- MODULE Spec2Model ----------------------------
(***************************************************************************)
(* A model of scrapegoat-core: the Goatspeak interpreter's grouping of     *)
(* commands into blocks and queries, the Gardener's HTML tree builder, the *)
(* graze commands and conditions, the node projection (to_dict) and the    *)
(* Shepherd's herd loop.                                                   *)
(*                                                                         *)
(* Python objects are modelled by value plus an identity: a command        *)
(* carries the index of the statement it was parsed from (sid), a node is  *)
(* an index into the heap of HTMLNode records.  Text is a sequence of      *)
(* one-character strings, so that joining with " " and strip() are         *)
(* computed, not assumed.                                                  *)
(***************************************************************************)
EXTENDS Integers, Sequences, FiniteSets, TLC

VARIABLES
    script,            \* interpret: the statements of the script being interpreted
    index,             \* interpret: index of the next statement to parse (1-based)
    instructions,      \* interpret: the accumulated commands
    goatspeak_blocks,  \* interpret: the completed blocks
    ipc,               \* interpret: "run", "done" (returned) or the exception raised
    heap,              \* every HTMLNode created so far; a node's id is its index
    html,              \* Gardener: the events of the document fed so far
    root,              \* Gardener.root (0 is None)
    stack,             \* Gardener.stack: the open elements, innermost last
    tag_counts,        \* Gardener.tag_counts
    gpc,               \* Gardener: "idle", "feeding" (inside grow_tree) or "grown"
    commands,          \* Goat.feast: the graze commands of the last call
    results,           \* the nodes returned by feast / Shepherd.herd's results list
    output,            \* the last call made on a node and what it returned or raised
    block_index,       \* Shepherd.herd: the number of blocks taken from the list
    query_index,       \* _query_list_handler: the number of queries handled
    fetched,           \* the urls the getter was called with, in order
    exported,          \* the files written by DeliverCommand.execute, in order
    returned,          \* what herd returned
    hpc                \* herd: "idle", "convert", "grow", "queries", "returned", "error"

interpVars == <<script, index, instructions, goatspeak_blocks, ipc>>

gardenerVars == <<heap, html, root, stack, tag_counts, gpc>>

goatVars == <<commands, results>>

projectVars == <<output>>

herdVars == <<block_index, query_index, fetched, exported, returned, hpc>>

vars == <<interpVars, gardenerVars, goatVars, projectVars, herdVars>>

nonInterpVars == <<gardenerVars, goatVars, projectVars, herdVars>>

nonGardenerVars == <<interpVars, goatVars, projectVars, herdVars>>

(***************************************************************************)
(* Bounds of the model.                                                    *)
(***************************************************************************)
MaxStmts == 4

MaxEvents == 5

(***************************************************************************)
(* Generic helpers.                                                        *)
(***************************************************************************)
Last(s) == s[Len(s)]

Range(s) == {s[i] : i \in 1..Len(s)}

SeqsUpTo(S, n) == UNION {[1..k -> S] : k \in 0..n}

\* next((x for x in s if P(x)), default)
RECURSIVE FirstWith(_, _, _)
FirstWith(s, acts, default) ==
    IF s = <<>> THEN default
    ELSE IF Head(s).action \in acts THEN Head(s)
    ELSE FirstWith(Tail(s), acts, default)

(***************************************************************************)
(* Commands (command.py).  One record shape for the four command classes;  *)
(* the fields a class does not have keep their defaults.  None is Python's *)
(* None where a command is expected.                                       *)
(***************************************************************************)
Blank ==
    [action |-> "none", sid |-> 0, count |-> 0, element |-> "",
     conditions |-> <<>>, fields |-> <<>>, ignore_children |-> FALSE,
     ignore_grandchildren |-> FALSE, table |-> FALSE, file_type |-> "",
     url |-> ""]

None == Blank

GrazeCommand(action, count, element, conditions) ==
    [Blank EXCEPT !.action = action, !.count = count, !.element = element,
                  !.conditions = conditions]

ChurnCommand(fields, ignore_children, ignore_grandchildren, table) ==
    [Blank EXCEPT !.action = "extract", !.fields = fields,
                  !.ignore_children = ignore_children,
                  !.ignore_grandchildren = ignore_grandchildren,
                  !.table = table]

DeliverCommand(file_type) ==
    [Blank EXCEPT !.action = "output", !.file_type = file_type]

FetchCommand(url) ==
    [Blank EXCEPT !.action = "visit", !.url = url]

\* InCondition(target, value, negated, query_tag) (conditions.py)
InCondition(target, value, negated, query_tag) ==
    [target |-> target, value |-> value, negated |-> negated,
     query_tag |-> query_tag]

(***************************************************************************)
(* Blocks and queries (block.py).                                          *)
(***************************************************************************)
Query(graze_commands, fetch_command, churn_command, deliver_command) ==
    [graze_commands |-> graze_commands, fetch_command |-> fetch_command,
     churn_command |-> churn_command, deliver_command |-> deliver_command]

GoatspeakBlock(fetch_command, query_list) ==
    [fetch_command |-> fetch_command, query_list |-> query_list]

(***************************************************************************)
(* Interpreter (interpreter.py).                                           *)
(***************************************************************************)
IsGraze(cmd) == cmd.action \in {"scrape", "select"}

\* The partition of accumulated commands into one Query (lines 513-523 and
\* 570-580): the first visit, every select/scrape, the first extract, the
\* first output.
MakeQuery(cmds) ==
    Query(SelectSeq(cmds, IsGraze),
          FirstWith(cmds, {"visit"}, None),
          FirstWith(cmds, {"extract"}, None),
          FirstWith(cmds, {"output"}, None))

\* last_block.query_list.append(query)
AppendToLastBlock(blocks, query) ==
    [blocks EXCEPT ![Len(blocks)].query_list = Append(@, query)]

\* Whether the flush branch of _manage_interpreter_state is taken (line 509).
FlushDue(instrs) ==
    /\ Len(instrs) >= 2
    /\ instrs[Len(instrs) - 1].action \in {"scrape", "extract", "output"}
    /\ instrs[Len(instrs)].action \in {"scrape", "select", "visit"}

\* A variant of _manage_interpreter_state that opens the new Block without
\* handing it the Fetch command.
ManageInterpreterState_BlockNoFetch(instrs, blocks) ==
    IF FlushDue(instrs) /\ blocks = <<>>
    THEN [ok |-> FALSE, instructions |-> instrs, blocks |-> blocks]
    ELSE LET flushed == FlushDue(instrs)
             instrs1 == IF flushed THEN <<Last(instrs)>> ELSE instrs
             blocks1 == IF flushed
                        THEN AppendToLastBlock(blocks,
                                 MakeQuery(SubSeq(instrs, 1, Len(instrs) - 1)))
                        ELSE blocks
         IN  IF Last(instrs1).action = "visit"
             THEN [ok |-> TRUE, instructions |-> <<Last(instrs1)>>,
                   blocks |-> Append(blocks1, GoatspeakBlock(None, <<>>))]
             ELSE [ok |-> TRUE, instructions |-> instrs1, blocks |-> blocks1]

\* _manage_interpreter_state.  ok = FALSE is the IndexError that
\* goatspeak_blocks[-1] raises when the flush is due and no block exists.
ManageInterpreterState(instrs, blocks) ==
    IF FlushDue(instrs) /\ blocks = <<>>
    THEN [ok |-> FALSE, instructions |-> instrs, blocks |-> blocks]
    ELSE LET flushed == FlushDue(instrs)
             instrs1 == IF flushed THEN <<Last(instrs)>> ELSE instrs
             blocks1 == IF flushed
                        THEN AppendToLastBlock(blocks,
                                 MakeQuery(SubSeq(instrs, 1, Len(instrs) - 1)))
                        ELSE blocks
         IN  IF Last(instrs1).action = "visit"
             THEN [ok |-> TRUE, instructions |-> <<Last(instrs1)>>,
                   blocks |-> Append(blocks1,
                                     GoatspeakBlock(Last(instrs1), <<>>))]
             ELSE [ok |-> TRUE, instructions |-> instrs1, blocks |-> blocks1]

\* The command a statement parser returns for a well-formed statement: a
\* fresh command object, identified by the statement it came from.
ParseStatement(stmts, i) == [stmts[i] EXCEPT !.sid = i]

\* The end of interpret (lines 569-587): the remaining commands become a
\* last Query, in a synthesized Block when no Block exists.
FinishInterpret(instrs, blocks) ==
    IF instrs = <<>> THEN blocks
    ELSE IF blocks = <<>>
         THEN <<GoatspeakBlock(FirstWith(instrs, {"visit"}, None),
                               <<MakeQuery(instrs)>>)>>
         ELSE AppendToLastBlock(blocks, MakeQuery(instrs))

\* One iteration of interpret's while loop (lines 555-567).
InterpretStatement ==
    /\ ipc = "run"
    /\ index <= Len(script)
    /\ LET r == ManageInterpreterState(
                    Append(instructions, ParseStatement(script, index)),
                    goatspeak_blocks)
       IN  IF r.ok
           THEN /\ instructions' = r.instructions
                /\ goatspeak_blocks' = r.blocks
                /\ index' = index + 1
                /\ ipc' = "run"
           ELSE /\ ipc' = "IndexError"
                /\ UNCHANGED <<instructions, goatspeak_blocks, index>>
    /\ UNCHANGED <<script, nonInterpVars>>

\* The loop has ended: the last Query is built and interpret returns.
InterpretReturn ==
    /\ ipc = "run"
    /\ index > Len(script)
    /\ goatspeak_blocks' = FinishInterpret(instructions, goatspeak_blocks)
    /\ ipc' = "done"
    /\ UNCHANGED <<script, index, instructions, nonInterpVars>>

(***************************************************************************)
(* The statement parsers (interpreter.py) on a list of tokens.  A parser   *)
(* returns the command and the index after the statement, or raises: exc   *)
(* names the exception, "" when none.  Reading tokens[index] past the end  *)
(* of the list raises IndexError.  Indices count from 1.  The scripts of   *)
(* this model hold no flag tokens and no IF conditions.                    *)
(***************************************************************************)
Token(type, value) == [type |-> type, value |-> value]

\* tokens[idx].type, or the IndexError of tokens[idx]
TypeAt(tokens, idx) ==
    IF idx <= Len(tokens) THEN tokens[idx].type ELSE "IndexError"

\* int(token.value)
NumberValue(value) ==
    CASE value = "0" -> 0 [] value = "1" -> 1 [] value = "2" -> 2
      [] value = "3" -> 3

Raises(exc) == [exc |-> exc, instruction |-> None, index |-> 0]

Parsed(instruction, idx) ==
    [exc |-> "", instruction |-> instruction, index |-> idx]

\* ConditionParser._parse_in; idx is at the IN token.  An ancestry
\* condition has no value (0).
ParseIn(tokens, idx, element, negated) ==
    LET i1 == idx + 1
        i2 == i1 + 1
        i3 == i2 + 1
    IN  IF TypeAt(tokens, i1) = "IndexError" THEN Raises("IndexError")
        ELSE IF TypeAt(tokens, i1) = "KEYWORD"
        THEN IF TypeAt(tokens, i2) = "IndexError" THEN Raises("IndexError")
             ELSE IF TypeAt(tokens, i2) # "OPERATOR"
             THEN Raises("GoatspeakInterpreterException")
             ELSE IF TypeAt(tokens, i3) = "IndexError" THEN Raises("IndexError")
             ELSE IF TypeAt(tokens, i3) # "NUMBER"
             THEN Raises("GoatspeakInterpreterException")
             ELSE Parsed(InCondition("POSITION", NumberValue(tokens[i3].value),
                                     negated \/ tokens[i2].value = "!=",
                                     element),
                         i3 + 1)
        ELSE IF TypeAt(tokens, i1) # "IDENTIFIER"
        THEN Raises("GoatspeakInterpreterException")
        ELSE Parsed(InCondition(tokens[i1].value, 0, negated, element), i1 + 1)

\* ConditionParser.parse
ConditionParse(tokens, idx, element) ==
    LET negated == TypeAt(tokens, idx) = "NEGATION"
        i1 == IF negated THEN idx + 1 ELSE idx
    IN  IF TypeAt(tokens, i1) = "IndexError" THEN Raises("IndexError")
        ELSE IF TypeAt(tokens, i1) # "CONDITIONAL"
        THEN Raises("GoatspeakInterpreterException")
        ELSE ParseIn(tokens, i1, element, negated)

\* The loop of ScrapeSelectParser.parse that collects the conditions up to
\* a semicolon or flag token.
RECURSIVE ConditionsLoop(_, _, _, _)
ConditionsLoop(tokens, idx, element, conditions) ==
    IF TypeAt(tokens, idx) = "IndexError" THEN Raises("IndexError")
    ELSE IF TypeAt(tokens, idx) \in {"SEMICOLON", "FLAG"}
    THEN Parsed(conditions, idx)
    ELSE LET c == ConditionParse(tokens, idx, element)
         IN  IF c.exc # "" THEN c
             ELSE ConditionsLoop(tokens, c.index, element,
                                 Append(conditions, c.instruction))

\* ScrapeSelectParser.parse
ScrapeSelectParse(tokens, idx) ==
    LET i1 == idx + 1
        counted == TypeAt(tokens, i1) = "NUMBER"
        count == IF counted THEN NumberValue(tokens[i1].value) ELSE 0
        i2 == IF counted THEN i1 + 1 ELSE i1
        conds == ConditionsLoop(tokens, i2 + 1, tokens[i2].value, <<>>)
    IN  IF TypeAt(tokens, i1) = "IndexError" \/ TypeAt(tokens, i2) = "IndexError"
        THEN Raises("IndexError")
        ELSE IF TypeAt(tokens, i2) # "IDENTIFIER"
        THEN Raises("GoatspeakInterpreterException")
        ELSE IF conds.exc # "" THEN conds
        ELSE Parsed(GrazeCommand(tokens[idx].value, count, tokens[i2].value,
                                 conds.instruction),
                    conds.index + 1)

\* The loop of ExtractParser.parse: identifiers are collected as fields,
\* tokens of other types are passed over, up to a semicolon or flag token.
RECURSIVE FieldsLoop(_, _, _)
FieldsLoop(tokens, idx, fields) ==
    IF TypeAt(tokens, idx) = "IndexError" THEN Raises("IndexError")
    ELSE IF TypeAt(tokens, idx) \in {"SEMICOLON", "FLAG"}
    THEN Parsed(fields, idx)
    ELSE FieldsLoop(tokens, idx + 1,
                    IF TypeAt(tokens, idx) = "IDENTIFIER"
                    THEN Append(fields, tokens[idx].value) ELSE fields)

\* ExtractParser.parse
ExtractParse(tokens, idx) ==
    LET fields == FieldsLoop(tokens, idx + 1, <<>>)
    IN  IF fields.exc # "" THEN fields
        ELSE Parsed(ChurnCommand(fields.instruction, FALSE, FALSE, FALSE),
                    fields.index + 1)

\* OutputParser.parse: the token after the file type is read for the flag
\* test and passed over, whatever it is.
OutputParse(tokens, idx) ==
    IF TypeAt(tokens, idx + 1) = "IndexError" THEN Raises("IndexError")
    ELSE IF TypeAt(tokens, idx + 1) # "FILE_TYPE"
    THEN Raises("GoatspeakInterpreterException")
    ELSE IF TypeAt(tokens, idx + 2) = "IndexError" THEN Raises("IndexError")
    ELSE Parsed(DeliverCommand(tokens[idx + 1].value), idx + 3)

\* VisitParser.parse: the token after the url is read for the flag test and
\* passed over, whatever it is.
VisitParse(tokens, idx) ==
    IF TypeAt(tokens, idx + 1) = "IndexError" THEN Raises("IndexError")
    ELSE IF TypeAt(tokens, idx + 1) # "IDENTIFIER"
    THEN Raises("GoatspeakInterpreterException")
    ELSE IF TypeAt(tokens, idx + 2) = "IndexError" THEN Raises("IndexError")
    ELSE Parsed(FetchCommand(tokens[idx + 1].value), idx + 3)

\* self.action_parsers.get(token.value) and parser.parse(tokens, idx)
ParseAction(tokens, idx) ==
    CASE tokens[idx].value = "visit" -> VisitParse(tokens, idx)
      [] tokens[idx].value \in {"scrape", "select"} ->
            ScrapeSelectParse(tokens, idx)
      [] tokens[idx].value = "extract" -> ExtractParse(tokens, idx)
      [] tokens[idx].value = "output" -> OutputParse(tokens, idx)
      [] OTHER -> Raises("GoatspeakInterpreterException")

\* One iteration of interpret's while loop on the tokens of the script: the
\* token at index must be an action, its parser consumes the statement, and
\* the command, identified by the index of its action token, is appended.
InterpretTokens ==
    /\ ipc = "run"
    /\ index <= Len(script)
    /\ LET parsed == IF script[index].type # "ACTION"
                     THEN Raises("GoatspeakInterpreterException")
                     ELSE ParseAction(script, index)
           r == ManageInterpreterState(
                    Append(instructions,
                           [parsed.instruction EXCEPT !.sid = index]),
                    goatspeak_blocks)
       IN  IF parsed.exc # ""
           THEN /\ ipc' = parsed.exc
                /\ UNCHANGED <<instructions, goatspeak_blocks, index>>
           ELSE IF r.ok
           THEN /\ instructions' = r.instructions
                /\ goatspeak_blocks' = r.blocks
                /\ index' = parsed.index
                /\ ipc' = "run"
           ELSE /\ ipc' = "IndexError"
                /\ UNCHANGED <<instructions, goatspeak_blocks, index>>
    /\ UNCHANGED <<script, nonInterpVars>>

(***************************************************************************)
(* Text.  A string is a sequence of one-character strings.                 *)
(***************************************************************************)
Space == <<" ">>

RECURSIVE LStrip(_)
LStrip(t) == IF t # <<>> /\ Head(t) = " " THEN LStrip(Tail(t)) ELSE t

RECURSIVE RStrip(_)
RStrip(t) ==
    IF t # <<>> /\ Last(t) = " " THEN RStrip(SubSeq(t, 1, Len(t) - 1)) ELSE t

\* str.strip()
Strip(t) == RStrip(LStrip(t))

(***************************************************************************)
(* HTMLNode (node.py) and the Gardener (gardener.py).                      *)
(***************************************************************************)
VOID_TAGS ==
    {"area", "base", "br", "col", "embed", "hr", "img", "input", "link",
     "meta", "param", "source", "track", "wbr"}

INLINE_TAGS ==
    {"b", "i", "strong", "em", "u", "small", "mark", "sub", "sup", "a",
     "span", "img", "br", "code", "s", "q", "cite"}

P_CLOSERS ==
    {"address", "article", "aside", "blockquote", "div", "dl", "fieldset",
     "footer", "form", "h1", "h2", "h3", "h4", "h5", "h6", "header",
     "hgroup", "hr", "main", "nav", "ol", "p", "pre", "section", "table",
     "ul"}

\* An AUTO_CLOSE table without the "li" entry.
AUTO_CLOSE_NoLi(tag) ==
    CASE tag = "p" -> P_CLOSERS
      [] tag \in {"dt", "dd"} -> {"dt", "dd"}
      [] tag = "tr" -> {"tr"}
      [] tag \in {"td", "th"} -> {"td", "th"}
      [] OTHER -> {}

\* AUTO_CLOSE[tag], the empty set for a tag that is not a key.
AUTO_CLOSE(tag) ==
    CASE tag = "li" -> {"li"}
      [] tag = "p" -> P_CLOSERS
      [] tag \in {"dt", "dd"} -> {"dt", "dd"}
      [] tag = "tr" -> {"tr"}
      [] tag \in {"td", "th"} -> {"td", "th"}
      [] OTHER -> {}

\* The tags of the documents of this model.
TagNames ==
    {"html", "body", "div", "p", "ul", "li", "b", "i", "br", "table", "tr",
     "td", "th", "h1"}

NoFlags ==
    [ignore_children |-> FALSE, ignore_grandchildren |-> FALSE,
     table |-> FALSE]

\* HTMLNode.__init__ and the is_inline attribute handle_starttag adds.  The
\* retrieval instruction "SCRAPE 1 <tag> IN POSITION=<n>;" is kept as its
\* parts; extract_fields <<>> is None.
HTMLNode(tag_type) ==
    [tag_type |-> tag_type, has_data |-> FALSE, body |-> <<>>,
     children |-> <<>>, parent |-> 0, is_inline |-> FALSE,
     retrieval_instructions |-> [count |-> 0, element |-> "", position |-> 0],
     extract_fields |-> <<>>, extract_flags |-> NoFlags]

StartEvent(tag) == [kind |-> "start", tag |-> tag, data |-> <<>>]

EndEvent(tag) == [kind |-> "end", tag |-> tag, data |-> <<>>]

DataEvent(data) == [kind |-> "data", tag |-> "", data |-> data]

\* The Gardener's state as one value: the heap of nodes with the parser's
\* root, stack and counters; error is an exception raised inside feed.
GardenerState(hp, rt, st, tc, err) ==
    [heap |-> hp, root |-> rt, stack |-> st, tag_counts |-> tc, error |-> err]

\* next((n for n in reversed(self.stack) if n is not None), self.root)
InnermostOpen(g) == IF g.stack # <<>> THEN Last(g.stack) ELSE g.root

\* _auto_close_before: while the innermost open element's tag lists the new
\* tag in AUTO_CLOSE, pop it.
RECURSIVE AutoCloseBefore(_, _, _)
AutoCloseBefore(hp, st, new_tag) ==
    IF st = <<>> THEN st
    ELSE IF new_tag \in AUTO_CLOSE(hp[Last(st)].tag_type)
         THEN AutoCloseBefore(hp, SubSeq(st, 1, Len(st) - 1), new_tag)
         ELSE st

\* A handle_starttag that stamps the occurrence number before it counts
\* the new node.
HandleStartTag_StampsBeforeCount(g, tag_type) ==
    LET st1 == AutoCloseBefore(g.heap, g.stack, tag_type)
        id == Len(g.heap) + 1
        tc1 == [g.tag_counts EXCEPT ![tag_type] = @ + 1]
        node == [HTMLNode(tag_type) EXCEPT
                    !.is_inline = tag_type \in INLINE_TAGS,
                    !.retrieval_instructions =
                        [count |-> 1, element |-> tag_type,
                         position |-> g.tag_counts[tag_type]]]
        st2 == IF tag_type \in VOID_TAGS THEN st1 ELSE Append(st1, id)
    IN  IF g.root = 0
        THEN GardenerState(Append(g.heap, node), id, st2, tc1, g.error)
        ELSE LET parent == IF st1 # <<>> THEN Last(st1) ELSE g.root
             IN  GardenerState(
                     Append([g.heap EXCEPT ![parent].children = Append(@, id)],
                            [node EXCEPT !.parent = parent]),
                     g.root, st2, tc1, g.error)

\* A handle_starttag that lists the new node under the innermost open
\* element and under the root.
HandleStartTag_AlsoUnderRoot(g, tag_type) ==
    LET st1 == AutoCloseBefore(g.heap, g.stack, tag_type)
        id == Len(g.heap) + 1
        tc1 == [g.tag_counts EXCEPT ![tag_type] = @ + 1]
        node == [HTMLNode(tag_type) EXCEPT
                    !.is_inline = tag_type \in INLINE_TAGS,
                    !.retrieval_instructions =
                        [count |-> 1, element |-> tag_type,
                         position |-> tc1[tag_type]]]
        st2 == IF tag_type \in VOID_TAGS THEN st1 ELSE Append(st1, id)
    IN  IF g.root = 0
        THEN GardenerState(Append(g.heap, node), id, st2, tc1, g.error)
        ELSE LET parent == IF st1 # <<>> THEN Last(st1) ELSE g.root
                 hp1 == [g.heap EXCEPT ![parent].children = Append(@, id)]
             IN  GardenerState(
                     Append(IF parent = g.root THEN hp1
                            ELSE [hp1 EXCEPT ![g.root].children = Append(@, id)],
                            [node EXCEPT !.parent = parent]),
                     g.root, st2, tc1, g.error)

\* handle_starttag
HandleStartTag(g, tag_type) ==
    LET st1 == AutoCloseBefore(g.heap, g.stack, tag_type)
        id == Len(g.heap) + 1
        tc1 == [g.tag_counts EXCEPT ![tag_type] = @ + 1]
        node == [HTMLNode(tag_type) EXCEPT
                    !.is_inline = tag_type \in INLINE_TAGS,
                    !.retrieval_instructions =
                        [count |-> 1, element |-> tag_type,
                         position |-> tc1[tag_type]]]
        st2 == IF tag_type \in VOID_TAGS THEN st1 ELSE Append(st1, id)
    IN  IF g.root = 0
        THEN GardenerState(Append(g.heap, node), id, st2, tc1, g.error)
        ELSE LET parent == IF st1 # <<>> THEN Last(st1) ELSE g.root
             IN  GardenerState(
                     Append([g.heap EXCEPT ![parent].children = Append(@, id)],
                            [node EXCEPT !.parent = parent]),
                     g.root, st2, tc1, g.error)

\* A handle_endtag that cuts the stack at the outermost open element with
\* the tag.
HandleEndTag_Outermost(g, tag_type) ==
    LET open == {i \in 1..Len(g.stack) : g.heap[g.stack[i]].tag_type = tag_type}
    IN  IF open = {} THEN g
        ELSE LET i == CHOOSE k \in open : \A m \in open : k <= m
             IN  [g EXCEPT !.stack = SubSeq(g.stack, 1, i - 1)]

\* handle_endtag: the stack is cut at the innermost open element with the tag.
HandleEndTag(g, tag_type) ==
    LET open == {i \in 1..Len(g.stack) : g.heap[g.stack[i]].tag_type = tag_type}
    IN  IF open = {} THEN g
        ELSE LET i == CHOOSE k \in open : \A m \in open : m <= k
             IN  [g EXCEPT !.stack = SubSeq(g.stack, 1, i - 1)]

\* body += " " + stripped, or body = stripped when the body is empty
AddText(node, stripped) ==
    [node EXCEPT !.body = IF @ # <<>> THEN @ \o Space \o stripped ELSE stripped,
                 !.has_data = TRUE]

\* A handle_data that does not hand an inline element's text to its parent.
HandleData_NoBubble(g, data) ==
    LET stripped == Strip(data)
        current == InnermostOpen(g)
    IN  IF stripped = <<>> THEN g
        ELSE IF current = 0 THEN [g EXCEPT !.error = TRUE]
        ELSE [g EXCEPT !.heap = [g.heap EXCEPT ![current] = AddText(@, stripped)]]

\* handle_data
HandleData(g, data) ==
    LET stripped == Strip(data)
        current == InnermostOpen(g)
    IN  IF stripped = <<>> THEN g
        ELSE IF current = 0 THEN [g EXCEPT !.error = TRUE]
        ELSE LET hp1 == [g.heap EXCEPT ![current] = AddText(@, stripped)]
                 parent == hp1[current].parent
             IN  IF hp1[current].is_inline /\ parent # 0
                 THEN [g EXCEPT !.heap = [hp1 EXCEPT ![parent] = AddText(@, stripped)]]
                 ELSE [g EXCEPT !.heap = hp1]

\* One callback of HTMLParser.feed.
HandleEvent(g, ev) ==
    IF g.error THEN g
    ELSE CASE ev.kind = "start" -> HandleStartTag(g, ev.tag)
           [] ev.kind = "end" -> HandleEndTag(g, ev.tag)
           [] OTHER -> HandleData(g, ev.data)

RECURSIVE Feed(_, _)
Feed(g, events) ==
    IF events = <<>> THEN g ELSE Feed(HandleEvent(g, Head(events)), Tail(events))

HasStartTag(doc, tag) ==
    \E i \in 1..Len(doc) : doc[i].kind = "start" /\ doc[i].tag = tag

\* _append_root_tag, on a document without an html (body) start tag.  A
\* document that brings its own html tag gets its body inserted after the
\* first html start tag and closed before the first html end tag.
AppendRootTag(doc) ==
    LET d1 == IF ~HasStartTag(doc, "html")
              THEN <<StartEvent("html")>> \o doc \o <<EndEvent("html")>>
              ELSE doc
        opens == {i \in 1..Len(d1) : d1[i] = StartEvent("html")}
        closes == {i \in 1..Len(d1) : d1[i] = EndEvent("html")}
        o == CHOOSE k \in opens : \A m \in opens : k <= m
        c == CHOOSE k \in closes : \A m \in closes : k <= m
        d2 == IF opens = {} THEN d1
              ELSE SubSeq(d1, 1, o) \o <<StartEvent("body")>>
                       \o SubSeq(d1, o + 1, Len(d1))
        shift == IF opens # {} /\ o < c THEN 1 ELSE 0
        d3 == IF closes = {} THEN d2
              ELSE SubSeq(d2, 1, c + shift - 1) \o <<EndEvent("body")>>
                       \o SubSeq(d2, c + shift, Len(d2))
    IN  IF HasStartTag(doc, "body") THEN d1 ELSE d3

\* A grow_tree that keeps the counters of the parse before.
ResetGardener_KeepsCounters(hp) ==
    GardenerState(hp, 0, <<>>, tag_counts, FALSE)

\* The state grow_tree starts a parse from (lines 149-152): no root, an
\* empty stack, empty counters.  The nodes of earlier parses stay alive.
ResetGardener(hp) ==
    GardenerState(hp, 0, <<>>, [t \in TagNames |-> 0], FALSE)

\* grow_tree: the Gardener's state once the wrapped document is fed; its
\* root is the tree returned.
GrowTree(hp, doc) == Feed(ResetGardener(hp), AppendRootTag(doc))

(***************************************************************************)
(* Tree operations of HTMLNode (node.py).                                  *)
(***************************************************************************)
\* get_ancestors: the parent, its parent, ... up to the root.
RECURSIVE GetAncestors(_, _)
GetAncestors(hp, n) ==
    IF hp[n].parent = 0 THEN <<>>
    ELSE <<hp[n].parent>> \o GetAncestors(hp, hp[n].parent)

\* is_descendant_of
IsDescendantOf(hp, n, tag_type) ==
    \E a \in Range(GetAncestors(hp, n)) : hp[a].tag_type = tag_type

\* preorder_traversal: the node, then each child's traversal in turn.
RECURSIVE PreorderTraversal(_, _)
RECURSIVE PreorderOfAll(_, _)
PreorderTraversal(hp, n) == <<n>> \o PreorderOfAll(hp, hp[n].children)

PreorderOfAll(hp, ns) ==
    IF ns = <<>> THEN <<>>
    ELSE PreorderTraversal(hp, Head(ns)) \o PreorderOfAll(hp, Tail(ns))

\* get_descendants(tag_type); tag_type "" is None (every tag).
RECURSIVE GetDescendants(_, _, _)
RECURSIVE DescendantsOfAll(_, _, _)
GetDescendants(hp, n, tag_type) == DescendantsOfAll(hp, hp[n].children, tag_type)

DescendantsOfAll(hp, ns, tag_type) ==
    IF ns = <<>> THEN <<>>
    ELSE (IF tag_type = "" \/ hp[Head(ns)].tag_type = tag_type
          THEN <<Head(ns)>> ELSE <<>>)
            \o GetDescendants(hp, Head(ns), tag_type)
            \o DescendantsOfAll(hp, Tail(ns), tag_type)

(***************************************************************************)
(* Conditions (conditions.py) and graze commands (command.py, goat.py).    *)
(***************************************************************************)
\* A position loop that counts every node, whatever its tag.
RECURSIVE PositionMatches_CountsAllNodes(_, _, _, _, _)
PositionMatches_CountsAllNodes(hp, cond, node, walk, position) ==
    IF walk = <<>> THEN FALSE
    ELSE IF node = Head(walk) /\ hp[node].tag_type = cond.query_tag
         THEN position = cond.value
         ELSE PositionMatches_CountsAllNodes(hp, cond, node, Tail(walk),
                                             position + 1)

\* The position loop of InCondition.matches (lines 147-153): walk the
\* traversal counting the nodes of the query tag until the node is met.
RECURSIVE PositionMatches(_, _, _, _, _)
PositionMatches(hp, cond, node, walk, position) ==
    IF walk = <<>> THEN FALSE
    ELSE IF hp[Head(walk)].tag_type = cond.query_tag
         THEN IF node = Head(walk) THEN position = cond.value
              ELSE PositionMatches(hp, cond, node, Tail(walk), position + 1)
         ELSE PositionMatches(hp, cond, node, Tail(walk), position)

\* InCondition.matches
InConditionMatches(hp, cond, node, rt) ==
    IF cond.target = "POSITION"
    THEN PositionMatches(hp, cond, node, PreorderTraversal(hp, rt), 1)
    ELSE IsDescendantOf(hp, node, cond.target)

\* Condition.evaluate
Evaluate(hp, cond, node, rt) ==
    IF cond.negated THEN ~InConditionMatches(hp, cond, node, rt)
    ELSE InConditionMatches(hp, cond, node, rt)

\* GrazeCommand._evaluate
GrazeEvaluate(hp, cmd, node, rt) ==
    /\ hp[node].tag_type = cmd.element
    /\ \A c \in 1..Len(cmd.conditions) : Evaluate(hp, cmd.conditions[c], node, rt)

\* A loop that stops one match late.
RECURSIVE GrazeLoop_StopsLate(_, _, _, _, _)
GrazeLoop_StopsLate(hp, cmd, rt, walk, found) ==
    IF walk = <<>> THEN found
    ELSE IF GrazeEvaluate(hp, cmd, Head(walk), rt)
         THEN LET found1 == Append(found, Head(walk))
              IN  IF cmd.count > 0 /\ Len(found1) > cmd.count THEN found1
                  ELSE GrazeLoop_StopsLate(hp, cmd, rt, Tail(walk), found1)
         ELSE GrazeLoop_StopsLate(hp, cmd, rt, Tail(walk), found)

\* The loop of GrazeCommand.execute over the rest of the traversal.
RECURSIVE GrazeLoop(_, _, _, _, _)
GrazeLoop(hp, cmd, rt, walk, found) ==
    IF walk = <<>> THEN found
    ELSE IF GrazeEvaluate(hp, cmd, Head(walk), rt)
         THEN LET found1 == Append(found, Head(walk))
              IN  IF cmd.count > 0 /\ Len(found1) >= cmd.count THEN found1
                  ELSE GrazeLoop(hp, cmd, rt, Tail(walk), found1)
         ELSE GrazeLoop(hp, cmd, rt, Tail(walk), found)

\* GrazeCommand.execute
GrazeExecute(hp, cmd, rt) ==
    GrazeLoop(hp, cmd, rt, PreorderTraversal(hp, rt), <<>>)

\* A feast whose select does not rebase: the rest of the list runs from the
\* same root once for each match of the select.
RECURSIVE Feast_NoRebase(_, _, _)
RECURSIVE FeastEach_NoRebase(_, _, _, _)
Feast_NoRebase(hp, rt, cmds) ==
    IF cmds = <<>> THEN <<>>
    ELSE IF Head(cmds).action = "select"
         THEN FeastEach_NoRebase(hp, rt, GrazeExecute(hp, Head(cmds), rt),
                                 Tail(cmds))
         ELSE GrazeExecute(hp, Head(cmds), rt)
                \o Feast_NoRebase(hp, rt, Tail(cmds))

FeastEach_NoRebase(hp, rt, new_roots, cmds) ==
    IF new_roots = <<>> THEN <<>>
    ELSE Feast_NoRebase(hp, rt, cmds)
            \o FeastEach_NoRebase(hp, rt, Tail(new_roots), cmds)

\* A feast that goes on with the commands after a select against the
\* root it was given.
RECURSIVE Feast_SelectDoesNotReturn(_, _, _)
RECURSIVE FeastEach_SelectDoesNotReturn(_, _, _)
Feast_SelectDoesNotReturn(hp, rt, cmds) ==
    IF cmds = <<>> THEN <<>>
    ELSE IF Head(cmds).action = "select"
         THEN FeastEach_SelectDoesNotReturn(hp, GrazeExecute(hp, Head(cmds), rt),
                                            Tail(cmds))
                \o Feast_SelectDoesNotReturn(hp, rt, Tail(cmds))
         ELSE GrazeExecute(hp, Head(cmds), rt)
                \o Feast_SelectDoesNotReturn(hp, rt, Tail(cmds))

FeastEach_SelectDoesNotReturn(hp, new_roots, cmds) ==
    IF new_roots = <<>> THEN <<>>
    ELSE Feast_SelectDoesNotReturn(hp, Head(new_roots), cmds)
            \o FeastEach_SelectDoesNotReturn(hp, Tail(new_roots), cmds)

\* Goat.feast: scrapes add their matches; the first select re-runs the rest
\* of the list from each of its matches and ends the loop.
RECURSIVE Feast(_, _, _)
RECURSIVE FeastEach(_, _, _)
Feast(hp, rt, cmds) ==
    IF cmds = <<>> THEN <<>>
    ELSE IF Head(cmds).action = "select"
         THEN FeastEach(hp, GrazeExecute(hp, Head(cmds), rt), Tail(cmds))
         ELSE GrazeExecute(hp, Head(cmds), rt) \o Feast(hp, rt, Tail(cmds))

FeastEach(hp, new_roots, cmds) ==
    IF new_roots = <<>> THEN <<>>
    ELSE Feast(hp, Head(new_roots), cmds) \o FeastEach(hp, Tail(new_roots), cmds)

(***************************************************************************)
(* Projection of a node (node.py).  A call returns the heap it leaves, for *)
(* to_dict writes directives into children and table extraction writes     *)
(* cell bodies.  A dict is a function on its keys; None is <<>> for a list *)
(* and 0 for a node; the documents carry no attributes.                    *)
(***************************************************************************)
\* set_extract_instructions: "fields or None" turns an empty list into None.
SetExtractInstructions(hp, n, fields, ignore_children, ignore_grandchildren, table) ==
    [hp EXCEPT ![n].extract_fields = fields,
               ![n].extract_flags =
                    [ignore_children |-> ignore_children,
                     ignore_grandchildren |-> ignore_grandchildren,
                     table |-> table]]

\* ChurnCommand.execute
ChurnExecute(hp, cmd, n) ==
    SetExtractInstructions(hp, n, cmd.fields, cmd.ignore_children,
                           cmd.ignore_grandchildren, cmd.table)

\* A churn that leaves the first node out.
MilkmaidChurn_SkipsFirst(hp, nodes, cmd) ==
    IF nodes = <<>> THEN hp
    ELSE LET rest == Tail(nodes)
         IN  [i \in 1..Len(hp) |->
                IF i \in Range(rest) THEN ChurnExecute(hp, cmd, i)[i] ELSE hp[i]]

\* Milkmaid.churn
RECURSIVE MilkmaidChurn(_, _, _)
MilkmaidChurn(hp, nodes, cmd) ==
    IF nodes = <<>> THEN hp
    ELSE MilkmaidChurn(ChurnExecute(hp, cmd, Head(nodes)), Tail(nodes), cmd)

\* The loop of to_dict that hands the node's directives to its children.
RECURSIVE CascadeToChildren(_, _, _)
CascadeToChildren(hp, n, kids) ==
    IF kids = <<>> THEN hp
    ELSE CascadeToChildren(
            SetExtractInstructions(hp, Head(kids), hp[n].extract_fields,
                hp[n].extract_flags.ignore_grandchildren, FALSE, FALSE),
            n, Tail(kids))

\* The raw start tag of an element without attributes.
Raw(hp, n) == <<"<", hp[n].tag_type, ">">>

\* The value _handle_extract_fields stores for a field other than children.
FieldNames ==
    {"id", "tag_type", "has_data", "html_attributes", "body",
     "retrieval_instructions", "parent", "extract_fields", "extract_flags"}

FieldValue(hp, n, field) ==
    CASE field = "id" -> n
      [] field = "tag_type" -> hp[n].tag_type
      [] field = "has_data" -> hp[n].has_data
      [] field = "html_attributes" -> <<>>
      [] field = "body" -> hp[n].body
      [] field = "retrieval_instructions" -> hp[n].retrieval_instructions
      [] field = "parent" -> hp[n].parent
      [] field = "extract_fields" -> hp[n].extract_fields
      [] field = "extract_flags" -> hp[n].extract_flags

RECURSIVE ToDict(_, _, _)

\* [child.to_dict() for child in self.children]: the children were handed
\* table = False just before, so none of these calls raises.
RECURSIVE ChildrenToDict(_, _)
ChildrenToDict(hp, kids) ==
    IF kids = <<>> THEN [heap |-> hp, value |-> <<>>]
    ELSE LET first == ToDict(hp, Head(kids), FALSE)
             rest == ChildrenToDict(first.heap, Tail(kids))
         IN  [heap |-> rest.heap, value |-> <<first.value>> \o rest.value]

\* The loop of _handle_extract_fields; a name outside the fixed set adds
\* no key.
RECURSIVE ExtractFieldsLoop(_, _, _, _, _)
ExtractFieldsLoop(hp, n, fields, ignore_children, dict_representation) ==
    IF fields = <<>>
    THEN [heap |-> hp, raised |-> FALSE, value |-> dict_representation]
    ELSE LET field == Head(fields)
         IN  IF field \in FieldNames
             THEN ExtractFieldsLoop(hp, n, Tail(fields), ignore_children,
                    (field :> FieldValue(hp, n, field)) @@ dict_representation)
             ELSE IF field = "children" /\ ~ignore_children
             THEN LET kids == ChildrenToDict(hp, hp[n].children)
                  IN  ExtractFieldsLoop(kids.heap, n, Tail(fields),
                        ignore_children,
                        ("children" :> kids.value) @@ dict_representation)
             ELSE ExtractFieldsLoop(hp, n, Tail(fields), ignore_children,
                                    dict_representation)

\* _handle_extract_fields
HandleExtractFields(hp, n, ignore_children) ==
    ExtractFieldsLoop(hp, n, hp[n].extract_fields, ignore_children, <<>>)

\* _handle_ignore_children
HandleIgnoreChildren(hp, n) ==
    [heap |-> hp, raised |-> FALSE,
     value |-> [id |-> n, raw |-> Raw(hp, n), tag_type |-> hp[n].tag_type,
                has_data |-> hp[n].has_data, html_attributes |-> <<>>,
                body |-> hp[n].body,
                retrieval_instructions |-> hp[n].retrieval_instructions,
                parent |-> hp[n].parent,
                extract_fields |-> hp[n].extract_fields,
                extract_flags |-> hp[n].extract_flags]]

\* The full dict at the end of to_dict.
FullDict(hp, n) ==
    LET kids == ChildrenToDict(hp, hp[n].children)
    IN  [heap |-> kids.heap, raised |-> FALSE,
         value |-> [id |-> n, raw |-> Raw(hp, n), tag_type |-> hp[n].tag_type,
                    has_data |-> hp[n].has_data, html_attributes |-> <<>>,
                    body |-> hp[n].body, children |-> kids.value,
                    retrieval_instructions |-> hp[n].retrieval_instructions,
                    parent |-> hp[n].parent,
                    extract_fields |-> hp[n].extract_fields,
                    extract_flags |-> hp[n].extract_flags]]

\* for child in cell.get_descendants(): cell.body += " " + child.body
RECURSIVE HoistText(_, _, _)
HoistText(hp, cell, descendants) ==
    IF descendants = <<>> THEN hp
    ELSE HoistText([hp EXCEPT ![cell].body = @ \o Space \o hp[Head(descendants)].body],
                   cell, Tail(descendants))

\* The header loop of _handle_table_extract.
RECURSIVE HeaderLoop(_, _, _)
HeaderLoop(hp, cells, headers) ==
    IF cells = <<>> THEN [heap |-> hp, headers |-> headers]
    ELSE LET cell == Head(cells)
             hp1 == HoistText(hp, cell, GetDescendants(hp, cell, ""))
         IN  HeaderLoop(hp1, Tail(cells), Append(headers, Strip(hp1[cell].body)))

\* The loop over the headers that fills one row; col_index counts from 1.
RECURSIVE RowLoop(_, _, _, _, _)
RowLoop(hp, headers, cells, col_index, row) ==
    IF col_index > Len(headers) THEN [heap |-> hp, row |-> row]
    ELSE IF col_index <= Len(cells)
         THEN LET cell == cells[col_index]
                  hp1 == HoistText(hp, cell, GetDescendants(hp, cell, ""))
              IN  RowLoop(hp1, headers, cells, col_index + 1,
                          (headers[col_index] :> Strip(hp1[cell].body)) @@ row)
         ELSE RowLoop(hp, headers, cells, col_index + 1,
                      (headers[col_index] :> <<>>) @@ row)

\* The loop over the data rows.
RECURSIVE RowsLoop(_, _, _, _)
RowsLoop(hp, headers, trs, result) ==
    IF trs = <<>> THEN [heap |-> hp, raised |-> FALSE, value |-> result]
    ELSE LET tr == Head(trs)
             cells == GetDescendants(hp, tr, "td") \o GetDescendants(hp, tr, "th")
             filled == RowLoop(hp, headers, cells, 1, <<>>)
         IN  RowsLoop(filled.heap, headers, Tail(trs),
                      Append(result, filled.row))

\* _handle_table_extract
HandleTableExtract(hp, n) ==
    LET trows == GetDescendants(hp, n, "tr")
    IN  IF trows = <<>> THEN [heap |-> hp, raised |-> FALSE, value |-> <<>>]
        ELSE LET header_row == Head(trows)
                 header == HeaderLoop(hp,
                              GetDescendants(hp, header_row, "th")
                                \o GetDescendants(hp, header_row, "td"), <<>>)
             IN  RowsLoop(header.heap, header.headers, Tail(trows), <<>>)

\* The part of to_dict after the table branch.
ProjectNode(hp, n, ignore_children) ==
    IF hp[n].extract_fields # <<>> THEN HandleExtractFields(hp, n, ignore_children)
    ELSE IF ignore_children THEN HandleIgnoreChildren(hp, n)
    ELSE FullDict(hp, n)

\* The exception to_dict raises.
Raise(hp) == [heap |-> hp, raised |-> TRUE, value |-> <<>>]

\* A to_dict that hands the directives to the children before it looks at
\* the table flag.
ToDict_CascadeBeforeTableCheck(hp, n, ignore_children) ==
    LET hp1 == CascadeToChildren(hp, n, hp[n].children)
    IN  IF hp[n].extract_flags.table
        THEN IF hp[n].tag_type # "table" THEN Raise(hp1)
             ELSE HandleTableExtract(hp1, n)
        ELSE ProjectNode(hp1, n,
                hp[n].extract_flags.ignore_children \/ ignore_children)

\* A to_dict that projects before it hands the directives to the children.
ToDict_CascadeAfterProjection(hp, n, ignore_children) ==
    IF hp[n].extract_flags.table
    THEN IF hp[n].tag_type # "table" THEN Raise(hp)
         ELSE HandleTableExtract(hp, n)
    ELSE LET projection == ProjectNode(hp, n,
                hp[n].extract_flags.ignore_children \/ ignore_children)
         IN  [projection EXCEPT
                !.heap = CascadeToChildren(projection.heap, n, hp[n].children)]

\* HTMLNode.to_dict
ToDict(hp, n, ignore_children) ==
    IF hp[n].extract_flags.table
    THEN IF hp[n].tag_type # "table" THEN Raise(hp)
         ELSE HandleTableExtract(hp, n)
    ELSE ProjectNode(CascadeToChildren(hp, n, hp[n].children), n,
                     hp[n].extract_flags.ignore_children \/ ignore_children)

\* DeliverCommand._to_json: the list of the nodes' projections; a raise
\* ends the comprehension before the file is opened.
RECURSIVE NodesAsDicts(_, _, _)
NodesAsDicts(hp, nodes, dicts) ==
    IF nodes = <<>> THEN [heap |-> hp, raised |-> FALSE, value |-> dicts]
    ELSE LET d == ToDict(hp, Head(nodes), FALSE)
         IN  IF d.raised THEN d
             ELSE NodesAsDicts(d.heap, Tail(nodes), Append(dicts, d.value))

\* The fields of a projection whose values are dicts: html_attributes and
\* extract_flags.
DictValued == {"html_attributes", "extract_flags"}

\* DeliverCommand._flatten_dict.  A key of the flattened dict is given as
\* the sequence of the names it is made of; new_key is the key's own name
\* with and without a parent key.  The keys are taken in some order: in a
\* projection no two of them give the same new_key.
RECURSIVE FlattenDict(_, _)

RECURSIVE FlattenItems(_, _, _, _)
FlattenItems(d, keys, parent_key, items) ==
    IF keys = {} THEN items
    ELSE LET k == CHOOSE x \in keys : TRUE
             new_key == IF parent_key # <<>> THEN <<k>> ELSE <<k>>
         IN  FlattenItems(d, keys \ {k}, parent_key,
                IF k \in DictValued
                THEN FlattenDict(d[k], new_key) @@ items
                ELSE (new_key :> d[k]) @@ items)

FlattenDict(d, parent_key) == FlattenItems(d, DOMAIN d, parent_key, <<>>)

\* DeliverCommand._collect_nodes on a dict: the children are collected
\* first, then the flattened dict without them is appended, with the list
\* of the children's ids (an id of 0 is None) or None in their place.
RECURSIVE CollectNodes(_, _)

\* for child in children: child_flat = ...; child_ids.append(...)
RECURSIVE CollectChildren(_, _, _)
CollectChildren(children, all_nodes, child_ids) ==
    IF children = <<>> THEN [all_nodes |-> all_nodes, child_ids |-> child_ids]
    ELSE LET child_flat == CollectNodes(Head(children), all_nodes)
         IN  CollectChildren(Tail(children), child_flat.all_nodes,
                Append(child_ids,
                       IF "id" \in DOMAIN child_flat.node_copy
                       THEN child_flat.node_copy.id ELSE 0))

CollectNodes(node_dict, all_nodes) ==
    LET had_children == "children" \in DOMAIN node_dict
        node_copy == [k \in DOMAIN node_dict \ {"children"} |-> node_dict[k]]
        kids == CollectChildren(IF had_children THEN node_dict.children ELSE <<>>,
                                all_nodes, <<>>)
        flattened == FlattenDict(node_copy, <<>>)
        all_none == \A i \in 1..Len(kids.child_ids) : kids.child_ids[i] = 0
    IN  [all_nodes |->
            Append(kids.all_nodes,
                   IF had_children
                   THEN (<<"children">> :>
                            (IF all_none THEN None ELSE kids.child_ids))
                        @@ flattened
                   ELSE flattened),
         node_copy |-> node_copy]

\* _collect_nodes on the list a table projection is: each row is collected.
RECURSIVE CollectList(_, _)
CollectList(node_dict, all_nodes) ==
    IF node_dict = <<>> THEN all_nodes
    ELSE CollectList(Tail(node_dict),
                     CollectNodes(Head(node_dict), all_nodes).all_nodes)

\* The first loop of _to_csv; a to_dict that raises ends it.
RECURSIVE ToCsvLoop(_, _, _)
ToCsvLoop(hp, nodes, all_nodes) ==
    IF nodes = <<>> THEN [heap |-> hp, raised |-> FALSE, value |-> all_nodes]
    ELSE LET d == ToDict(hp, Head(nodes), FALSE)
         IN  IF d.raised THEN d
             ELSE ToCsvLoop(d.heap, Tail(nodes),
                    IF hp[Head(nodes)].extract_flags.table
                    THEN CollectList(d.value, all_nodes)
                    ELSE CollectNodes(d.value, all_nodes).all_nodes)

\* DeliverCommand._to_csv: the file has the union of the rows' keys as its
\* columns, in no particular order, and one row for each collected dict.
ToCsv(hp, nodes) ==
    LET collected == ToCsvLoop(hp, nodes, <<>>)
    IN  IF collected.raised THEN collected
        ELSE [collected EXCEPT !.value =
                [fieldnames |-> UNION {DOMAIN collected.value[i] :
                                          i \in 1..Len(collected.value)},
                 rows |-> collected.value]]

\* DeliverCommand.execute: what is written to the file.
DeliverExecute(hp, cmd, nodes) ==
    IF cmd.file_type = "csv" THEN ToCsv(hp, nodes)
    ELSE NodesAsDicts(hp, nodes, <<>>)

(***************************************************************************)
(* The Gardener fed one event at a time.                                   *)
(***************************************************************************)
CurrentGardener == GardenerState(heap, root, stack, tag_counts, FALSE)

SetGardener(g) ==
    /\ heap' = g.heap
    /\ root' = g.root
    /\ stack' = g.stack
    /\ tag_counts' = g.tag_counts

\* grow_tree is entered: the state is reset and the wrapper's start tags
\* are fed.
GrowTreeBegin ==
    /\ gpc = "idle"
    /\ SetGardener(Feed(ResetGardener(heap),
                        <<StartEvent("html"), StartEvent("body")>>))
    /\ html' = <<>>
    /\ gpc' = "feeding"
    /\ UNCHANGED nonGardenerVars

\* feed reaches a start tag of the document.
FeedStartTag(tag_type) ==
    /\ gpc = "feeding"
    /\ Len(html) < MaxEvents
    /\ SetGardener(HandleStartTag(CurrentGardener, tag_type))
    /\ html' = Append(html, StartEvent(tag_type))
    /\ UNCHANGED <<gpc, nonGardenerVars>>

\* feed reaches an end tag of the document.
FeedEndTag(tag_type) ==
    /\ gpc = "feeding"
    /\ Len(html) < MaxEvents
    /\ SetGardener(HandleEndTag(CurrentGardener, tag_type))
    /\ html' = Append(html, EndEvent(tag_type))
    /\ UNCHANGED <<gpc, nonGardenerVars>>

EndsWithData(events) == events # <<>> /\ Last(events).kind = "data"

\* feed reaches text; the parser hands over the text between two tags in
\* one piece.
FeedData(data) ==
    /\ gpc = "feeding"
    /\ Len(html) < MaxEvents
    /\ ~EndsWithData(html)
    /\ SetGardener(HandleData(CurrentGardener, data))
    /\ html' = Append(html, DataEvent(data))
    /\ UNCHANGED <<gpc, nonGardenerVars>>

\* The document ends: the wrapper's end tags are fed and grow_tree returns
\* the root.
GrowTreeReturn ==
    /\ gpc = "feeding"
    /\ SetGardener(Feed(CurrentGardener, <<EndEvent("body"), EndEvent("html")>>))
    /\ gpc' = "grown"
    /\ UNCHANGED <<html, nonGardenerVars>>

(***************************************************************************)
(* The scripts interpreted: every sequence of at most MaxStmts well-formed *)
(* statements, one statement per action kind.                              *)
(***************************************************************************)
\* A Gardener as constructed, before any parse.
GardenerIdle ==
    /\ heap = <<>>
    /\ html = <<>>
    /\ root = 0
    /\ stack = <<>>
    /\ tag_counts = [t \in TagNames |-> 0]
    /\ gpc = "idle"

\* No script is being interpreted.
InterpreterIdle ==
    /\ script = <<>>
    /\ index = 1
    /\ instructions = <<>>
    /\ goatspeak_blocks = <<>>
    /\ ipc = "idle"

\* No feast has been run.
GoatIdle ==
    /\ commands = <<>>
    /\ results = <<>>

\* The value held before any call on a node.
NoOutput ==
    [call |-> "none", node |-> 0, raised |-> FALSE, value |-> <<>>,
     repeated |-> FALSE]

\* No node has been projected.
ProjectIdle == output = NoOutput

\* No herd is running.
HerdIdle ==
    /\ block_index = 0
    /\ query_index = 0
    /\ fetched = <<>>
    /\ exported = <<>>
    /\ returned = <<>>
    /\ hpc = "idle"

StatementKinds ==
    {FetchCommand("u"), GrazeCommand("select", 0, "div", <<>>),
     GrazeCommand("scrape", 0, "p", <<>>),
     ChurnCommand(<<>>, FALSE, FALSE, FALSE), DeliverCommand("json")}

InterpInit ==
    /\ script \in SeqsUpTo(StatementKinds, MaxStmts)
    /\ index = 1
    /\ instructions = <<>>
    /\ goatspeak_blocks = <<>>
    /\ ipc = "run"
    /\ GardenerIdle
    /\ GoatIdle
    /\ ProjectIdle
    /\ HerdIdle

InterpNext == InterpretStatement \/ InterpretReturn

InterpSpec == InterpInit /\ [][InterpNext]_vars

(***************************************************************************)
(* The Gardener parsing lists: every document of at most MaxEvents events  *)
(* over the tags ul, li and b and the texts of GardenTexts.                *)
(***************************************************************************)
GardenTags == {"ul", "li", "b"}

GardenTexts == {<<"x">>, <<" ">>}

GardenInit ==
    InterpreterIdle /\ GardenerIdle /\ GoatIdle /\ ProjectIdle /\ HerdIdle

GardenNext ==
    \/ GrowTreeBegin
    \/ \E t \in GardenTags : FeedStartTag(t)
    \/ \E t \in GardenTags : FeedEndTag(t)
    \/ \E d \in GardenTexts : FeedData(d)
    \/ GrowTreeReturn

GardenSpec == GardenInit /\ [][GardenNext]_vars

(***************************************************************************)
(* The Gardener parsing table markup with inline elements: every document  *)
(* of at most MaxEvents events over the start tags table, tr, td and b,    *)
(* the end tags td and b and the texts of MarkupTexts.                     *)
(***************************************************************************)
MarkupStartTags == {"table", "tr", "td", "b"}

MarkupEndTags == {"td", "b"}

MarkupTexts == {<<"x">>, <<"y", " ">>}

MarkupInit ==
    InterpreterIdle /\ GardenerIdle /\ GoatIdle /\ ProjectIdle /\ HerdIdle

MarkupNext ==
    \/ GrowTreeBegin
    \/ \E t \in MarkupStartTags : FeedStartTag(t)
    \/ \E t \in MarkupEndTags : FeedEndTag(t)
    \/ \E d \in MarkupTexts : FeedData(d)
    \/ GrowTreeReturn

MarkupSpec == MarkupInit /\ [][MarkupNext]_vars

(***************************************************************************)
(* Claims about the interpreter's grouping.                                *)
(***************************************************************************)
\* The indices of the VISIT statements of a script, in textual order.
RECURSIVE VisitPositions(_, _)
VisitPositions(stmts, i) ==
    IF i > Len(stmts) THEN <<>>
    ELSE IF stmts[i].action = "visit"
         THEN <<i>> \o VisitPositions(stmts, i + 1)
         ELSE VisitPositions(stmts, i + 1)

\* The statements a Query holds apart from its Fetch command.
QuerySids(q) ==
    {q.graze_commands[j].sid : j \in 1..Len(q.graze_commands)}
        \cup (IF q.churn_command = None THEN {} ELSE {q.churn_command.sid})
        \cup (IF q.deliver_command = None THEN {} ELSE {q.deliver_command.sid})

BlockSids(b) == UNION {QuerySids(b.query_list[j]) : j \in 1..Len(b.query_list)}

\* The statements after the k-th VISIT and before the next one.
StatementsOfVisit(stmts, vs, k) ==
    {i \in 1..Len(stmts) :
        /\ vs[k] < i
        /\ i < (IF k < Len(vs) THEN vs[k + 1] ELSE Len(stmts) + 1)}

\* Queries in textual order: every statement of a Query precedes every
\* statement of the Queries after it, and graze lists are in textual order.
QueriesInOrder(b) ==
    /\ \A j1, j2 \in 1..Len(b.query_list) :
          j1 < j2 => \A s1 \in QuerySids(b.query_list[j1]) :
                        \A s2 \in QuerySids(b.query_list[j2]) : s1 < s2
    /\ \A j \in 1..Len(b.query_list) :
          LET gz == b.query_list[j].graze_commands
          IN  \A a, c \in 1..Len(gz) : a < c => gz[a].sid < gz[c].sid

\* C1: for every script of well-formed statements with N VISITs, interpret
\* returns exactly N Blocks in VISIT order, and the Queries of each Block
\* hold exactly the statements after that VISIT and before the next one:
\* none missing, none from elsewhere, none extra.
C1_BlocksOwnFollowingStatements ==
    /\ ipc # "IndexError"
    /\ ipc = "done" =>
          LET vs == VisitPositions(script, 1)
          IN  /\ Len(goatspeak_blocks) = Len(vs)
              /\ \A k \in 1..Len(goatspeak_blocks) :
                    k <= Len(vs) =>
                      /\ goatspeak_blocks[k].fetch_command.sid = vs[k]
                      /\ BlockSids(goatspeak_blocks[k])
                            = StatementsOfVisit(script, vs, k)
                      /\ QueriesInOrder(goatspeak_blocks[k])

MaxCount == 2

MaxPosition == 3

GrazeTags == {"div", "p"}

\* SCRAPE count t;
Scrapes == {<<GrazeCommand("scrape", c, t, <<>>)>> : c \in 0..MaxCount, t \in GrazeTags}

\* SCRAPE t IN POSITION = k;  and  SCRAPE t IN POSITION != k;
PositionScrapes ==
    {<<GrazeCommand("scrape", 0, q[1],
                    <<InCondition("POSITION", q[2], q[3], q[1])>>)>> :
        q \in GrazeTags \X (1..MaxPosition) \X BOOLEAN}

\* SELECT a; SCRAPE b;
SelectScrapes ==
    {<<GrazeCommand("select", 0, q[1], <<>>),
       GrazeCommand("scrape", 0, q[2], <<>>)>> : q \in GrazeTags \X GrazeTags}

\* SELECT a; SCRAPE b IN POSITION = k;
SelectPositionScrapes ==
    {<<GrazeCommand("select", 0, q[1], <<>>),
       GrazeCommand("scrape", 0, q[2],
                    <<InCondition("POSITION", q[3], FALSE, q[2])>>)>> :
        q \in GrazeTags \X GrazeTags \X (1..MaxPosition)}

\* SCRAPE a; SELECT b; SCRAPE c;   SCRAPE a; SELECT b;   SELECT a;   and
\* SELECT a; SELECT b; SCRAPE c;
FeastLists ==
    {<<GrazeCommand("scrape", 0, q[1], <<>>),
       GrazeCommand("select", 0, q[2], <<>>),
       GrazeCommand("scrape", 0, q[3], <<>>)>> :
        q \in GrazeTags \X GrazeTags \X GrazeTags}
    \cup {<<GrazeCommand("scrape", 0, q[1], <<>>),
            GrazeCommand("select", 0, q[2], <<>>)>> : q \in GrazeTags \X GrazeTags}
    \cup {<<GrazeCommand("select", 0, t, <<>>)>> : t \in GrazeTags}
    \cup {<<GrazeCommand("select", 0, q[1], <<>>),
            GrazeCommand("select", 0, q[2], <<>>),
            GrazeCommand("scrape", 0, q[3], <<>>)>> :
            q \in GrazeTags \X GrazeTags \X GrazeTags}

GrazeCommandLists ==
    Scrapes \cup PositionScrapes \cup SelectScrapes
        \cup SelectPositionScrapes \cup FeastLists

\* results = Goat().feast(root, graze_commands), once on the grown tree:
\* a feast reads the tree and changes nothing in it.
GoatFeast(graze_commands) ==
    /\ gpc = "grown"
    /\ commands = <<>>
    /\ commands' = graze_commands
    /\ results' = Feast(heap, root, graze_commands)
    /\ UNCHANGED <<interpVars, gardenerVars, projectVars, herdVars>>

GrazeInit ==
    InterpreterIdle /\ GardenerIdle /\ GoatIdle /\ ProjectIdle /\ HerdIdle

GrazeNext ==
    \/ GrowTreeBegin
    \/ \E tag \in GrazeTags : FeedStartTag(tag)
    \/ \E tag \in GrazeTags : FeedEndTag(tag)
    \/ GrowTreeReturn
    \/ \E graze_commands \in GrazeCommandLists : GoatFeast(graze_commands)

GrazeSpec == GrazeInit /\ [][GrazeNext]_vars

(***************************************************************************)
(* Calls on the nodes of a parsed document: ChurnCommand.execute sets a    *)
(* node's directives and to_dict projects a node.  An exception ends the   *)
(* run.                                                                    *)
(***************************************************************************)
\* The Gardener after grow_tree(doc) on a fresh heap.
Grown(doc) ==
    LET g == GrowTree(<<>>, doc)
    IN  /\ heap = g.heap
        /\ html = doc
        /\ root = g.root
        /\ stack = g.stack
        /\ tag_counts = g.tag_counts
        /\ gpc = "grown"

\* churn_command.execute(node)
Churn(n, cmd) ==
    /\ gpc = "grown"
    /\ hpc = "idle"
    /\ ~output.raised
    /\ heap' = ChurnExecute(heap, cmd, n)
    /\ output' = [call |-> "set_extract_instructions", node |-> n,
                  raised |-> FALSE, value |-> <<>>, repeated |-> FALSE]
    /\ UNCHANGED <<interpVars, html, root, stack, tag_counts, gpc, goatVars,
                   herdVars>>

\* node.to_dict(); repeated tells that the call before was to_dict of the
\* same node.
Project(n) ==
    /\ gpc = "grown"
    /\ hpc = "idle"
    /\ ~output.raised
    /\ LET d == ToDict(heap, n, FALSE)
       IN  /\ heap' = d.heap
           /\ output' = [call |-> "to_dict", node |-> n, raised |-> d.raised,
                         value |-> d.value,
                         repeated |-> output.call = "to_dict" /\ output.node = n]
    /\ UNCHANGED <<interpVars, html, root, stack, tag_counts, gpc, goatVars,
                   herdVars>>

\* HTMLParser hands the text between two tags over in one piece.
NoAdjacentData(doc) ==
    \A i \in 1..(Len(doc) - 1) : ~(doc[i].kind = "data" /\ doc[i + 1].kind = "data")

(***************************************************************************)
(* Projection of plain elements: every document of at most                 *)
(* MaxProjectEvents events over div, p and a text; the nodes below body    *)
(* take the commands of ProjectCommands and are projected.                 *)
(***************************************************************************)
MaxProjectEvents == 3

ProjectEvents == {StartEvent("div"), StartEvent("p"), DataEvent(<<"x">>)}

ProjectDocs ==
    {doc \in SeqsUpTo(ProjectEvents, MaxProjectEvents) : NoAdjacentData(doc)}

ProjectCommands ==
    {ChurnCommand(<<>>, FALSE, FALSE, FALSE),
     ChurnCommand(<<>>, TRUE, FALSE, FALSE),
     ChurnCommand(<<"id", "children", "extract_flags">>, FALSE, TRUE, FALSE),
     ChurnCommand(<<"body">>, FALSE, FALSE, TRUE)}

\* The nodes of the document itself, below the html and body wrapper.
DocumentNodes == {n \in 1..Len(heap) : heap[n].tag_type \notin {"html", "body"}}

ProjectInit ==
    /\ InterpreterIdle /\ GoatIdle /\ ProjectIdle /\ HerdIdle
    /\ \E doc \in ProjectDocs : Grown(doc)

ProjectNext ==
    \/ \E n \in DocumentNodes, cmd \in ProjectCommands : Churn(n, cmd)
    \/ \E n \in DocumentNodes : Project(n)

ProjectSpec == ProjectInit /\ [][ProjectNext]_vars

(***************************************************************************)
(* Export of projected nodes: the nodes of <div><p>x and <p>x<p> take the  *)
(* commands of ProjectCommands, and lists of one or two of them are        *)
(* exported as csv or json, until MaxExports files are written.            *)
(***************************************************************************)
MaxExports == 1

DeliverDocs ==
    {<<StartEvent("div"), StartEvent("p"), DataEvent(<<"x">>)>>,
     <<StartEvent("p"), DataEvent(<<"x">>), StartEvent("p")>>}

\* deliver_command.execute(nodes)
Deliver(nodes, cmd) ==
    /\ gpc = "grown"
    /\ hpc = "idle"
    /\ ~output.raised
    /\ Len(exported) < MaxExports
    /\ LET written == DeliverExecute(heap, cmd, nodes)
       IN  /\ heap' = written.heap
           /\ output' = [call |-> "execute", node |-> 0,
                         raised |-> written.raised, value |-> <<>>,
                         repeated |-> FALSE]
           /\ exported' = IF written.raised THEN exported
                          ELSE Append(exported,
                                  [file_type |-> cmd.file_type,
                                   nodes |-> nodes,
                                   content |-> written.value])
    /\ UNCHANGED <<interpVars, html, root, stack, tag_counts, gpc, goatVars,
                   block_index, query_index, fetched, returned, hpc>>

DeliverInit ==
    /\ InterpreterIdle /\ GoatIdle /\ ProjectIdle /\ HerdIdle
    /\ \E doc \in DeliverDocs : Grown(doc)

DeliverNext ==
    \/ /\ Len(exported) < MaxExports
       /\ \E n \in DocumentNodes, cmd \in ProjectCommands : Churn(n, cmd)
    \/ \E n \in DocumentNodes, file_type \in {"csv", "json"} :
          Deliver(<<n>>, DeliverCommand(file_type))
    \/ \E n, m \in DocumentNodes, file_type \in {"csv", "json"} :
          Deliver(<<n, m>>, DeliverCommand(file_type))

DeliverSpec == DeliverInit /\ [][DeliverNext]_vars

(***************************************************************************)
(* Projection of tables: a header row of at most MaxCols cells and at most *)
(* MaxRows copies of a data row of at most MaxCols cells.                  *)
(***************************************************************************)
MaxCols == 2

MaxRows == 2

\* <tag>text</tag>
Cell(tag, text) == <<StartEvent(tag), DataEvent(text), EndEvent(tag)>>

HeaderCells == {Cell("th", <<"A">>), Cell("th", <<"B">>), Cell("td", <<"A">>)}

DataCells == {Cell("td", <<"1">>), Cell("td", <<"2">>), Cell("th", <<"3">>)}

RECURSIVE Flatten(_)
Flatten(ss) == IF ss = <<>> THEN <<>> ELSE Head(ss) \o Flatten(Tail(ss))

\* <tr>cells</tr>
RowEvents(cells) == <<StartEvent("tr")>> \o Flatten(cells) \o <<EndEvent("tr")>>

RECURSIVE Repeat(_, _)
Repeat(s, k) == IF k = 0 THEN <<>> ELSE s \o Repeat(s, k - 1)

TableDoc(header, row, nrows) ==
    <<StartEvent("table")>> \o RowEvents(header)
        \o Repeat(RowEvents(row), nrows) \o <<EndEvent("table")>>

TableDocs ==
    {TableDoc(q[1], q[2], q[3]) :
        q \in SeqsUpTo(HeaderCells, MaxCols) \X SeqsUpTo(DataCells, MaxCols)
                \X (0..MaxRows)}

TableCommands ==
    {ChurnCommand(<<>>, FALSE, FALSE, TRUE),
     ChurnCommand(<<>>, FALSE, FALSE, FALSE)}

\* The nodes a table query scrapes.
TableNodes == {n \in 1..Len(heap) : heap[n].tag_type = "table"}

TableInit ==
    /\ InterpreterIdle /\ GoatIdle /\ ProjectIdle /\ HerdIdle
    /\ \E doc \in TableDocs : Grown(doc)

TableNext ==
    \/ \E n \in TableNodes, cmd \in TableCommands : Churn(n, cmd)
    \/ \E n \in TableNodes : Project(n)

TableSpec == TableInit /\ [][TableNext]_vars

(***************************************************************************)
(* Projection of tables whose cells hold their text in an inline element:  *)
(* a header row and one or two copies of a data row.  Every table          *)
(* projection lengthens the text of such a cell, so a table is projected   *)
(* only while no text is longer than MaxBody.                              *)
(***************************************************************************)
MaxBody == 4

\* <tag><inline>text</inline></tag>
InlineCell(tag, inline, text) ==
    <<StartEvent(tag), StartEvent(inline), DataEvent(text), EndEvent(inline),
      EndEvent(tag)>>

CellHeaders == {<<Cell("th", <<"A">>)>>, <<InlineCell("th", "b", <<"A">>)>>}

CellRows ==
    {<<InlineCell("td", "b", <<"1">>)>>, <<Cell("td", <<"1">>)>>,
     <<InlineCell("td", "b", <<"1">>), Cell("td", <<"2">>)>>}

CellDocs ==
    {TableDoc(q[1], q[2], q[3]) : q \in CellHeaders \X CellRows \X {1, 2}}

CellInit ==
    /\ InterpreterIdle /\ GoatIdle /\ ProjectIdle /\ HerdIdle
    /\ \E doc \in CellDocs : Grown(doc)

CellNext ==
    \/ \E n \in TableNodes, cmd \in TableCommands : Churn(n, cmd)
    \/ /\ \A m \in 1..Len(heap) : Len(heap[m].body) <= MaxBody
       /\ \E n \in TableNodes : Project(n)

CellSpec == CellInit /\ [][CellNext]_vars

(***************************************************************************)
(* Shepherd.herd (shepherd.py): the script is interpreted, then each block *)
(* is fetched, parsed and queried in turn.  Every script of at most        *)
(* MaxStmts statements of HerdStatements with at most MaxVisits VISITs is  *)
(* run; the getter answers each call with a document of HerdDocs or        *)
(* raises.                                                                 *)
(***************************************************************************)
MaxVisits == 2

MaxParagraphs == 2

HerdStatements ==
    {FetchCommand("u"), GrazeCommand("scrape", 1, "p", <<>>),
     GrazeCommand("scrape", 0, "p", <<>>),
     ChurnCommand(<<"body">>, FALSE, FALSE, FALSE), DeliverCommand("json")}

HerdScripts ==
    {s \in SeqsUpTo(HerdStatements, MaxStmts) :
        Cardinality({i \in 1..Len(s) : s[i].action = "visit"}) <= MaxVisits}

\* <p>x<p>y<p>x..., k paragraphs, behind <div>z when lead is set.
RECURSIVE Paragraphs(_, _)
Paragraphs(i, k) ==
    IF i > k THEN <<>>
    ELSE <<StartEvent("p"), DataEvent(IF i % 2 = 1 THEN <<"x">> ELSE <<"y">>)>>
            \o Paragraphs(i + 1, k)

ParagraphDoc(k, lead) ==
    (IF lead THEN <<StartEvent("div"), DataEvent(<<"z">>)>> ELSE <<>>)
        \o Paragraphs(1, k)

HerdDocs == {ParagraphDoc(k, lead) : k \in 0..MaxParagraphs, lead \in BOOLEAN}

\* A de-duplication that takes two nodes of the same tag and text for one.
RECURSIVE Dedupe_ByContent(_, _)
Dedupe_ByContent(nodes, seen) ==
    IF nodes = <<>> THEN <<>>
    ELSE IF \E m \in seen : /\ heap[m].tag_type = heap[Head(nodes)].tag_type
                            /\ heap[m].body = heap[Head(nodes)].body
         THEN Dedupe_ByContent(Tail(nodes), seen)
    ELSE <<Head(nodes)>> \o Dedupe_ByContent(Tail(nodes), seen \cup {Head(nodes)})

\* list(dict.fromkeys(results)): nodes hash by identity.
RECURSIVE Dedupe(_, _)
Dedupe(nodes, seen) ==
    IF nodes = <<>> THEN <<>>
    ELSE IF Head(nodes) \in seen THEN Dedupe(Tail(nodes), seen)
    ELSE <<Head(nodes)>> \o Dedupe(Tail(nodes), seen \cup {Head(nodes)})

\* The block the loop of herd is at.
CurrentBlock == goatspeak_blocks[block_index]

\* A herd that takes each block as soon as the interpreter has opened it.
BetweenBlocks_Streaming ==
    \/ hpc = "convert" /\ goatspeak_blocks # <<>>
    \/ hpc = "queries" /\ query_index = Len(CurrentBlock.query_list)

\* The loop of herd is between two blocks: interpret has returned and no
\* block is taken yet, or the queries of the block taken are all handled.
BetweenBlocks ==
    \/ hpc = "convert" /\ ipc = "done"
    \/ hpc = "queries" /\ query_index = Len(CurrentBlock.query_list)

\* _convert_query_to_goatspeak re-raises what interpret raised.
HerdConvertRaises ==
    /\ hpc = "convert"
    /\ ipc \in {"IndexError", "GoatspeakInterpreterException"}
    /\ hpc' = "error"
    /\ UNCHANGED <<interpVars, gardenerVars, goatVars, projectVars,
                   block_index, query_index, fetched, exported, returned>>

\* sheepdog.fetch(block.fetch_command) answered with doc.  A block without
\* a fetch command has the getter called with None, which raises.
HerdFetch(doc) ==
    /\ BetweenBlocks
    /\ block_index < Len(goatspeak_blocks)
    /\ block_index' = block_index + 1
    /\ query_index' = 0
    /\ fetched' = Append(fetched, goatspeak_blocks[block_index + 1].fetch_command.url)
    /\ IF goatspeak_blocks[block_index + 1].fetch_command = None
       THEN hpc' = "error" /\ html' = html
       ELSE hpc' = "grow" /\ html' = doc
    /\ UNCHANGED <<interpVars, heap, root, stack, tag_counts, gpc, goatVars,
                   projectVars, exported, returned>>

\* sheepdog.fetch raises: the transport failed.
HerdFetchRaises ==
    /\ BetweenBlocks
    /\ block_index < Len(goatspeak_blocks)
    /\ block_index' = block_index + 1
    /\ fetched' = Append(fetched, goatspeak_blocks[block_index + 1].fetch_command.url)
    /\ hpc' = "error"
    /\ UNCHANGED <<interpVars, gardenerVars, goatVars, projectVars,
                   query_index, exported, returned>>

\* root = self.gardener.grow_tree(html)
HerdGrowTree ==
    /\ hpc = "grow"
    /\ LET g == GrowTree(heap, html)
       IN  /\ heap' = g.heap
           /\ root' = g.root
           /\ stack' = g.stack
           /\ tag_counts' = g.tag_counts
           /\ gpc' = "grown"
           /\ hpc' = IF g.error THEN "error" ELSE "queries"
    /\ UNCHANGED <<interpVars, html, goatVars, projectVars, block_index,
                   query_index, fetched, exported, returned>>

\* One iteration of the loop of _query_list_handler: feast, churn, extend,
\* and with a deliver command the export of the results so far, after which
\* the list is cleared.  A to_dict that raises ends herd before the file is
\* opened.
HerdQuery ==
    /\ hpc = "queries"
    /\ query_index < Len(CurrentBlock.query_list)
    /\ LET query == CurrentBlock.query_list[query_index + 1]
           query_results == Feast(heap, root, query.graze_commands)
           churned == IF query.churn_command # None
                      THEN MilkmaidChurn(heap, query_results, query.churn_command)
                      ELSE heap
           extended == results \o query_results
           dicts == DeliverExecute(churned, query.deliver_command, extended)
       IN  /\ commands' = query.graze_commands
           /\ IF query.deliver_command = None
              THEN /\ heap' = churned
                   /\ results' = extended
                   /\ query_index' = query_index + 1
                   /\ UNCHANGED <<exported, hpc>>
              ELSE IF dicts.raised
              THEN /\ heap' = dicts.heap
                   /\ results' = extended
                   /\ hpc' = "error"
                   /\ UNCHANGED <<exported, query_index>>
              ELSE /\ heap' = dicts.heap
                   /\ exported' = Append(exported,
                        [file_type |-> query.deliver_command.file_type,
                         nodes |-> extended,
                         content |-> dicts.value])
                   /\ results' = <<>>
                   /\ query_index' = query_index + 1
                   /\ UNCHANGED hpc
    /\ UNCHANGED <<interpVars, html, root, stack, tag_counts, gpc,
                   projectVars, block_index, fetched, returned>>

\* return list(dict.fromkeys(results))
HerdReturn ==
    /\ BetweenBlocks
    /\ block_index = Len(goatspeak_blocks)
    /\ returned' = Dedupe(results, {})
    /\ hpc' = "returned"
    /\ UNCHANGED <<interpVars, gardenerVars, goatVars, projectVars,
                   block_index, query_index, fetched, exported>>

HerdInit ==
    /\ script \in HerdScripts
    /\ index = 1
    /\ instructions = <<>>
    /\ goatspeak_blocks = <<>>
    /\ ipc = "run"
    /\ GardenerIdle /\ GoatIdle /\ ProjectIdle
    /\ block_index = 0
    /\ query_index = 0
    /\ fetched = <<>>
    /\ exported = <<>>
    /\ returned = <<>>
    /\ hpc = "convert"

HerdNext ==
    \/ InterpretStatement
    \/ InterpretReturn
    \/ HerdConvertRaises
    \/ \E doc \in HerdDocs : HerdFetch(doc)
    \/ HerdFetchRaises
    \/ HerdGrowTree
    \/ HerdQuery
    \/ HerdReturn

HerdSpec == HerdInit /\ [][HerdNext]_vars

(***************************************************************************)
(* Shepherd.herd on the tokens of a script: every concatenation of at most *)
(* MaxStmts of the statements below, well-formed or not, is interpreted    *)
(* token by token and its blocks are fetched, parsed and queried.          *)
(***************************************************************************)
Semicolon == Token("SEMICOLON", ";")

\* VISIT 'u';  SCRAPE p;  SCRAPE p IN POSITION = 1;  EXTRACT body;
\* OUTPUT json;
WellFormedStatements ==
    {<<Token("ACTION", "visit"), Token("IDENTIFIER", "u"), Semicolon>>,
     <<Token("ACTION", "scrape"), Token("IDENTIFIER", "p"), Semicolon>>,
     <<Token("ACTION", "scrape"), Token("IDENTIFIER", "p"),
       Token("CONDITIONAL", "in"), Token("KEYWORD", "position"),
       Token("OPERATOR", "="), Token("NUMBER", "1"), Semicolon>>,
     <<Token("ACTION", "extract"), Token("IDENTIFIER", "body"), Semicolon>>,
     <<Token("ACTION", "output"), Token("FILE_TYPE", "json"), Semicolon>>}

\* SCRAPE ;  OUTPUT p;  SCRAPE p  VISIT 'u'  (the last two lack their
\* semicolon)
MalformedStatements ==
    {<<Token("ACTION", "scrape"), Semicolon>>,
     <<Token("ACTION", "output"), Token("IDENTIFIER", "p"), Semicolon>>,
     <<Token("ACTION", "scrape"), Token("IDENTIFIER", "p")>>,
     <<Token("ACTION", "visit"), Token("IDENTIFIER", "u")>>}

\* The token lists of the scripts made of the statements of S.
ScriptsOf(S) == {Flatten(ss) : ss \in SeqsUpTo(S, MaxStmts)}

TokenScripts == ScriptsOf(WellFormedStatements \cup MalformedStatements)

\* The documents the getter answers with.
ScriptDocs == {ParagraphDoc(1, FALSE)}

ScriptInit ==
    /\ script \in TokenScripts
    /\ index = 1
    /\ instructions = <<>>
    /\ goatspeak_blocks = <<>>
    /\ ipc = "run"
    /\ GardenerIdle /\ GoatIdle /\ ProjectIdle
    /\ block_index = 0
    /\ query_index = 0
    /\ fetched = <<>>
    /\ exported = <<>>
    /\ returned = <<>>
    /\ hpc = "convert"

ScriptNext ==
    \/ InterpretTokens
    \/ InterpretReturn
    \/ HerdConvertRaises
    \/ \E doc \in ScriptDocs : HerdFetch(doc)
    \/ HerdFetchRaises
    \/ HerdGrowTree
    \/ HerdQuery
    \/ HerdReturn

ScriptSpec == ScriptInit /\ [][ScriptNext]_vars

(***************************************************************************)
(* Claims about grazing.  A parse creates its nodes in document order, so  *)
(* the nodes of a tag in document order are its ids in ascending order.    *)
(***************************************************************************)
RECURSIVE Ascending(_)
Ascending(S) ==
    IF S = {} THEN <<>>
    ELSE LET m == CHOOSE x \in S : \A y \in S : x <= y
         IN  <<m>> \o Ascending(S \ {m})

\* The nodes of tag t in document order.
TagNodes(t) == Ascending({n \in 1..Len(heap) : heap[n].tag_type = t})

\* The nodes of tag t below node a in document order.
TagDescendants(a, t) ==
    Ascending({n \in 1..Len(heap) :
                 heap[n].tag_type = t /\ a \in Range(GetAncestors(heap, n))})

\* The nodes of tag t in the subtree of a, a included, in document order.
TagNodesOfSubtree(a, t) ==
    Ascending({n \in 1..Len(heap) :
                 heap[n].tag_type = t
                    /\ (n = a \/ a \in Range(GetAncestors(heap, n)))})

Min(a, b) == IF a <= b THEN a ELSE b

\* C4: a scrape of t with no conditions returns all K nodes of tag t in
\* preorder when count = 0 and the first min(count, K) of them otherwise.
C4_ScrapeReturnsFirstCount ==
    (gpc = "grown" /\ commands \in Scrapes) =>
        LET cmd == commands[1]
            all == TagNodes(cmd.element)
        IN  results = IF cmd.count = 0 THEN all
                      ELSE SubSeq(all, 1, Min(cmd.count, Len(all)))

\* SCRAPE 2 p has run on a tree with three p nodes.
C4_Witness ==
    /\ gpc = "grown"
    /\ commands = <<GrazeCommand("scrape", 2, "p", <<>>)>>
    /\ Len(TagNodes("p")) = 3
    /\ results = SubSeq(TagNodes("p"), 1, 2)

\* The a nodes are siblings.
AreSiblings(ns) ==
    \A i, j \in 1..Len(ns) : heap[ns[i]].parent = heap[ns[j]].parent

RECURSIVE ConcatDescendants(_, _)
ConcatDescendants(as, b) ==
    IF as = <<>> THEN <<>>
    ELSE TagDescendants(Head(as), b) \o ConcatDescendants(Tail(as), b)

RECURSIVE ConcatSubtrees(_, _)
ConcatSubtrees(as, b) ==
    IF as = <<>> THEN <<>>
    ELSE TagNodesOfSubtree(Head(as), b) \o ConcatSubtrees(Tail(as), b)

\* C5 as stated: [SELECT a, SCRAPE b] on a tree whose a nodes are siblings
\* returns, for each a node in document order, its b descendants in
\* document order, and nothing else.
C5_SelectScrapeReturnsDescendants ==
    (gpc = "grown" /\ commands \in SelectScrapes
        /\ AreSiblings(TagNodes(commands[1].element))) =>
        results = ConcatDescendants(TagNodes(commands[1].element),
                                    commands[2].element)

\* C5 amended: the scrape runs over the subtree of each a node with that
\* node included, so for b = a the a nodes themselves are returned.
C5_SelectScrapeReturnsSubtreeNodes ==
    (gpc = "grown" /\ commands \in SelectScrapes
        /\ AreSiblings(TagNodes(commands[1].element))) =>
        results = ConcatSubtrees(TagNodes(commands[1].element),
                                 commands[2].element)

\* SELECT div; SCRAPE p; has run on two sibling divs holding one p each.
C5_Witness ==
    /\ gpc = "grown"
    /\ commands = <<GrazeCommand("select", 0, "div", <<>>),
                    GrazeCommand("scrape", 0, "p", <<>>)>>
    /\ Len(TagNodes("div")) = 2
    /\ AreSiblings(TagNodes("div"))
    /\ Len(results) = 2
    /\ heap[results[1]].parent = TagNodes("div")[1]
    /\ heap[results[2]].parent = TagNodes("div")[2]

\* The sequence s without its k-th element.
Without(s, k) == SubSeq(s, 1, k - 1) \o SubSeq(s, k + 1, Len(s))

\* C6: on a tree with K nodes of tag t and k in 1..K, a scrape of t IN
\* POSITION = k run against the root matches exactly the k-th t node in
\* preorder; with != k it matches exactly the other K-1 t nodes.
C6_PositionMatchesKth ==
    (gpc = "grown" /\ commands \in PositionScrapes) =>
        LET cmd == commands[1]
            cond == cmd.conditions[1]
            all == TagNodes(cmd.element)
        IN  cond.value \in 1..Len(all) =>
                results = IF cond.negated THEN Without(all, cond.value)
                          ELSE <<all[cond.value]>>

\* SCRAPE p IN POSITION != 2 has run on a tree with three p nodes.
C6_Witness ==
    /\ gpc = "grown"
    /\ commands = <<GrazeCommand("scrape", 0, "p",
                                 <<InCondition("POSITION", 2, TRUE, "p")>>)>>
    /\ Len(TagNodes("p")) = 3
    /\ results = <<TagNodes("p")[1], TagNodes("p")[3]>>

(***************************************************************************)
(* Claims about the herd.                                                  *)
(***************************************************************************)
\* VISIT u; SCRAPE 1 t; EXTRACT body; OUTPUT json;
EndToEndScript(u, t) ==
    <<FetchCommand(u), GrazeCommand("scrape", 1, t, <<>>),
      ChurnCommand(<<"body">>, FALSE, FALSE, FALSE), DeliverCommand("json")>>

\* C3: herd on VISIT u; SCRAPE 1 t; EXTRACT body; OUTPUT json; against a
\* fetched document with at least one t element fetches u once and exports
\* one JSON list with one object, whose only key is body and whose value is
\* the text of the first t element in document order.
C3_HerdExportsBodyOfFirstElement ==
    (hpc = "returned" /\ script = EndToEndScript("u", "p")
        /\ TagNodes("p") # <<>>) =>
        /\ fetched = <<"u">>
        /\ Len(exported) = 1
        /\ exported[1].file_type = "json"
        /\ Len(exported[1].content) = 1
        /\ DOMAIN exported[1].content[1] = {"body"}
        /\ exported[1].content[1].body = heap[TagNodes("p")[1]].body

\* The script has run against <p>x<p>y and has exported [{"body": "x"}].
C3_Witness ==
    /\ hpc = "returned"
    /\ script = EndToEndScript("u", "p")
    /\ html = <<StartEvent("p"), DataEvent(<<"x">>),
                StartEvent("p"), DataEvent(<<"y">>)>>
    /\ fetched = <<"u">>
    /\ exported = <<[file_type |-> "json", nodes |-> <<3>>,
                     content |-> <<[body |-> <<"x">>]>>]>>

(***************************************************************************)
(* Claims about projection.                                                *)
(***************************************************************************)
\* The cells of a header row and of a data row in the order the extraction
\* takes them.
HeaderCellsOf(tr) == TagDescendants(tr, "th") \o TagDescendants(tr, "td")

DataCellsOf(tr) == TagDescendants(tr, "td") \o TagDescendants(tr, "th")

\* The text of a cell.
CellText(cell) == Strip(heap[cell].body)

\* C7 as stated: projecting a table node with the table flag set returns one
\* row object per tr after the first; each row maps header i to the text of
\* the row's i-th cell, and to the empty string when the row has no i-th
\* cell.
C7_TableRowsMapHeadersToCells ==
    (output.call = "to_dict" /\ ~output.raised
        /\ heap[output.node].tag_type = "table"
        /\ heap[output.node].extract_flags.table) =>
        LET trs == TagDescendants(output.node, "tr")
        IN  IF trs = <<>> THEN output.value = <<>>
            ELSE LET header_cells == HeaderCellsOf(trs[1])
                 IN  /\ Len(output.value) = Len(trs) - 1
                     /\ \A r \in 1..Len(output.value) :
                        \A i \in 1..Len(header_cells) :
                            LET cells == DataCellsOf(trs[r + 1])
                                header == CellText(header_cells[i])
                            IN  /\ header \in DOMAIN output.value[r]
                                /\ output.value[r][header] =
                                     IF i <= Len(cells) THEN CellText(cells[i])
                                     ELSE <<>>

\* C8: to_dict of a node whose table flag is set and whose tag is not table
\* raises; setting the directive does not raise; the failing to_dict leaves
\* every node as it was.
C8_TableFlagOnNonTableRaisesAtProjection ==
    [][/\ output'.call = "set_extract_instructions" => ~output'.raised
       /\ (output'.call = "to_dict"
            /\ heap[output'.node].extract_flags.table
            /\ heap[output'.node].tag_type # "table") =>
                (output'.raised /\ heap' = heap)]_vars

\* to_dict has raised on a node with the table flag, not a table, whose
\* first child holds directives other than the node's own.
C8_Witness ==
    /\ output.call = "to_dict"
    /\ output.raised
    /\ heap[output.node].extract_flags.table
    /\ heap[output.node].tag_type # "table"
    /\ heap[output.node].children # <<>>
    /\ heap[heap[output.node].children[1]].extract_fields
            # heap[output.node].extract_fields

\* C9: a to_dict of a node without the table flag that directly follows a
\* to_dict of the same node returns what that one returned.
C9_ConsecutiveProjectionsAgree ==
    [][(output.call = "to_dict" /\ output'.call = "to_dict"
            /\ output'.node = output.node
            /\ ~heap[output.node].extract_flags.table) =>
                (~output'.raised /\ output'.value = output.value)]_vars

\* A node with a field list and ignore_grandchildren, a child and a
\* grandchild has been projected twice in a row; the child's projection
\* shows the directive handed down and omits the grandchild.
C9_Witness ==
    /\ output.call = "to_dict"
    /\ output.repeated
    /\ ~output.raised
    /\ heap[output.node].extract_flags.ignore_grandchildren
    /\ heap[output.node].extract_fields = <<"id", "children", "extract_flags">>
    /\ heap[output.node].children # <<>>
    /\ heap[heap[output.node].children[1]].children # <<>>
    /\ output.value.children[1].extract_flags.ignore_children
    /\ "children" \notin DOMAIN output.value.children[1]

(***************************************************************************)
(* Claims about the Gardener.                                              *)
(***************************************************************************)
IsLiStart(ev) == ev = StartEvent("li")

\* The node the i-th event of the document, a start tag, created: the
\* wrapper's html and body come first.
NodeOfEvent(i) ==
    2 + Cardinality({m \in 1..i : html[m].kind = "start"})

\* The position of node n among the children of its parent.
ChildIndex(hp, n) ==
    CHOOSE c \in 1..Len(hp[hp[n].parent].children) :
        hp[hp[n].parent].children[c] = n

\* Only text and further li start tags lie between events i and j.
OnlyTextAndLiBetween(i, j) ==
    \A m \in (i + 1)..(j - 1) : html[m].kind = "data" \/ IsLiStart(html[m])

\* C10: li start tags that follow one another with only text between them
\* and no li end tag give li nodes that are children of the same node, in
\* document order; none is a descendant of another.
C10_LiStartTagsGiveSiblings ==
    gpc \in {"feeding", "grown"} =>
        \A i, j \in 1..Len(html) :
            (i < j /\ IsLiStart(html[i]) /\ IsLiStart(html[j])
                /\ OnlyTextAndLiBetween(i, j)) =>
                LET a == NodeOfEvent(i)
                    b == NodeOfEvent(j)
                IN  /\ heap[a].tag_type = "li" /\ heap[b].tag_type = "li"
                    /\ heap[a].parent # 0
                    /\ heap[a].parent = heap[b].parent
                    /\ ChildIndex(heap, a) < ChildIndex(heap, b)
                    /\ a \notin Range(GetAncestors(heap, b))

\* <ul><li>x<li>x has been parsed: the ul has the two li nodes as children.
C10_Witness ==
    /\ gpc = "grown"
    /\ html = <<StartEvent("ul"), StartEvent("li"), DataEvent(<<"x">>),
                StartEvent("li"), DataEvent(<<"x">>)>>
    /\ heap[3].tag_type = "ul"
    /\ heap[3].children = <<4, 5>>
    /\ heap[4].body = <<"x">> /\ heap[5].body = <<"x">>

\* s starts with the text t.
StartsWith(s, t) == Len(s) >= Len(t) /\ SubSeq(s, 1, Len(t)) = t

\* The i-th event opens an element that can hold text of its own and is
\* not inline.
IsBlockStart(i) ==
    /\ html[i].kind = "start"
    /\ html[i].tag \notin INLINE_TAGS
    /\ html[i].tag \notin VOID_TAGS

\* The i-th event opens an inline element and the next event is its text.
IsInlineWithText(i) ==
    /\ i + 1 <= Len(html)
    /\ html[i].kind = "start"
    /\ html[i].tag \in INLINE_TAGS
    /\ html[i].tag \notin VOID_TAGS
    /\ html[i + 1].kind = "data"
    /\ Strip(html[i + 1].data) # <<>>

\* The i-th event is text that is not blank.
IsText(i) == i <= Len(html) /\ html[i].kind = "data" /\ Strip(html[i].data) # <<>>

\* C11: when an element that is not inline directly holds text and an
\* inline child with text, its body holds its own text and the child's
\* text, stripped and joined by one space in document order, and the
\* child's body holds the child's text: for <P>t1<c>t2 the body of P starts
\* with "t1 t2", for <P><c>t2</c>t1 it starts with "t2 t1", and the body of
\* c starts with t2.
C11_InlineTextBubblesToParent ==
    gpc \in {"feeding", "grown"} =>
        \A i \in 1..Len(html) :
            /\ (IsBlockStart(i) /\ IsText(i + 1) /\ IsInlineWithText(i + 2)) =>
                  LET t1 == Strip(html[i + 1].data)
                      t2 == Strip(html[i + 3].data)
                      parent == NodeOfEvent(i)
                      child == NodeOfEvent(i + 2)
                  IN  /\ heap[child].parent = parent
                      /\ StartsWith(heap[parent].body, t1 \o Space \o t2)
                      /\ StartsWith(heap[child].body, t2)
            /\ (IsBlockStart(i) /\ IsInlineWithText(i + 1)
                    /\ i + 4 <= Len(html)
                    /\ html[i + 3] = EndEvent(html[i + 1].tag)
                    /\ IsText(i + 4)) =>
                  LET t2 == Strip(html[i + 2].data)
                      t1 == Strip(html[i + 4].data)
                      parent == NodeOfEvent(i)
                      child == NodeOfEvent(i + 1)
                  IN  /\ heap[child].parent = parent
                      /\ heap[parent].body = t2 \o Space \o t1
                      /\ heap[child].body = t2

\* <td>x<b>y </b> has been parsed: the td holds "x y", the b holds "y".
C11_Witness ==
    /\ gpc = "grown"
    /\ html = <<StartEvent("td"), DataEvent(<<"x">>), StartEvent("b"),
                DataEvent(<<"y", " ">>), EndEvent("b")>>
    /\ heap[3].tag_type = "td" /\ heap[4].tag_type = "b"
    /\ heap[3].body = <<"x", " ", "y">>
    /\ heap[4].body = <<"y">>

\* The command a retrieval instruction "SCRAPE 1 <tag> IN POSITION=<n>;"
\* describes.
RetrievalCommand(ri) ==
    GrazeCommand("scrape", ri.count, ri.element,
                 <<InCondition("POSITION", ri.position, FALSE, ri.element)>>)

\* The nodes of the tree below rt with the tag of n, in preorder.
SameTagInPreorder(rt, n) ==
    LET SameTag(m) == heap[m].tag_type = heap[n].tag_type
    IN  SelectSeq(PreorderTraversal(heap, rt), SameTag)

\* C14: for every node n of the tree of one parse, the command its
\* retrieval instruction describes (scrape, count 1, n's tag, IN POSITION =
\* the stamped number), run against the root, returns the list [n]; the
\* stamped number is n's rank in preorder among the nodes of its tag.
C14_RetrievalInstructionSelectsNode ==
    gpc \in {"feeding", "grown"} =>
        \A n \in 1..Len(heap) :
            LET ri == heap[n].retrieval_instructions
                same == SameTagInPreorder(root, n)
            IN  /\ ri.count = 1
                /\ ri.element = heap[n].tag_type
                /\ ri.position \in 1..Len(same)
                /\ same[ri.position] = n
                /\ GrazeExecute(heap, RetrievalCommand(ri), root) = <<n>>

\* <ul><li></b><li><b> has been parsed: the first li was closed by the
\* second, the end tag matched nothing, and the second li's instruction
\* selects it.
C14_Witness ==
    /\ gpc = "grown"
    /\ html = <<StartEvent("ul"), StartEvent("li"), EndEvent("b"),
                StartEvent("li"), StartEvent("b")>>
    /\ heap[5].tag_type = "li" /\ heap[5].parent = 3
    /\ heap[5].retrieval_instructions.position = 2
    /\ GrazeExecute(heap, RetrievalCommand(heap[5].retrieval_instructions), root)
            = <<5>>

\* The node k parent references above n (0 above the root).
RECURSIVE ParentAbove(_, _, _)
ParentAbove(hp, n, k) ==
    IF k = 0 \/ n = 0 THEN n ELSE ParentAbove(hp, hp[n].parent, k - 1)

\* The places (m, c) where node n is listed as the c-th child of m.
ListedAt(n) ==
    {q \in (1..Len(heap)) \X (1..Len(heap)) :
        q[2] <= Len(heap[q[1]].children) /\ heap[q[1]].children[q[2]] = n}

\* C15: after every sequence of start tags, end tags and texts of one
\* parse the nodes form a tree: the root is the one node without a parent,
\* every other node is listed once, among the children of its parent and
\* nowhere else, the parent references lead from every node to the root,
\* and every children list is in the order of the start tags.
C15_ParseBuildsTree ==
    gpc \in {"feeding", "grown"} =>
        /\ {n \in 1..Len(heap) : heap[n].parent = 0} = {root}
        /\ ListedAt(root) = {}
        /\ \A n \in (1..Len(heap)) \ {root} :
              /\ Cardinality(ListedAt(n)) = 1
              /\ \A q \in ListedAt(n) : q[1] = heap[n].parent
              /\ \E k \in 1..Len(heap) : ParentAbove(heap, n, k) = root
        /\ \A n \in 1..Len(heap) :
              \A a, b \in 1..Len(heap[n].children) :
                  a < b => heap[n].children[a] < heap[n].children[b]

\* <ul><li>x</ul><li> has been parsed: the end tag closed the li with the
\* ul, and the second li is a child of body after the ul.
C15_Witness ==
    /\ gpc = "grown"
    /\ html = <<StartEvent("ul"), StartEvent("li"), DataEvent(<<"x">>),
                EndEvent("ul"), StartEvent("li")>>
    /\ heap[2].children = <<3, 5>>
    /\ heap[3].children = <<4>>
    /\ heap[5].parent = 2

\* C19 as stated: when a start tag arrives, every open element whose
\* auto-close set holds the new tag is popped, with the elements above it,
\* before the new node is attached: once the new node is attached no
\* element left open below it has the new tag in its auto-close set.
C19_StartTagClosesAnyOpenElement ==
    (gpc = "feeding" /\ html # <<>> /\ Last(html).kind = "start") =>
        \A i \in 1..Len(stack) :
            stack[i] # Len(heap) =>
                Last(html).tag \notin AUTO_CLOSE(heap[stack[i]].tag_type)

\* C20: an end tag removes from the open stack the innermost open element
\* with its tag and the elements above it and nothing below it; when no
\* open element has the tag the stack stays as it is; in both cases the
\* nodes, the root and the counters stay as they are.
C20_EndTagPopsThroughInnermostMatch ==
    [][(gpc = "feeding" /\ Len(html') = Len(html) + 1
            /\ Last(html').kind = "end") =>
          LET open == {i \in 1..Len(stack) :
                          heap[stack[i]].tag_type = Last(html').tag}
          IN  /\ heap' = heap /\ root' = root /\ tag_counts' = tag_counts
              /\ IF open = {} THEN stack' = stack
                 ELSE \E i \in open :
                        /\ \A m \in open : m <= i
                        /\ stack' = SubSeq(stack, 1, i - 1)]_vars

\* <ul><li><ul><b></ul>: the end tag has closed the inner ul with the b
\* above it and has left the outer ul and its li open.
C20_Witness ==
    /\ gpc = "feeding"
    /\ html = <<StartEvent("ul"), StartEvent("li"), StartEvent("ul"),
                StartEvent("b"), EndEvent("ul")>>
    /\ stack = <<1, 2, 3, 4>>

(***************************************************************************)
(* Claims about the results of herd.                                       *)
(***************************************************************************)
\* C16 as stated: when a query carries an output command, the list of
\* nodes handed to the exporter is the list its own graze commands match in
\* the tree of its own block, with no node of an earlier query or of an
\* earlier block's tree.
C16_ExportsOwnQueryResults ==
    [][Len(exported') = Len(exported) + 1 =>
          Last(exported').nodes =
              Feast(heap, root,
                    CurrentBlock.query_list[query_index + 1].graze_commands)]_vars

\* The index of the first occurrence of n in nodes.
FirstIndex(nodes, n) ==
    CHOOSE i \in 1..Len(nodes) :
        nodes[i] = n /\ \A j \in 1..(i - 1) : nodes[j] # n

\* C17: the list herd returns holds every node of the results once, in the
\* order of the first occurrences; two nodes with the same content are both
\* kept.
C17_HerdReturnsEachNodeOnce ==
    hpc = "returned" =>
        /\ \A a, b \in 1..Len(returned) : returned[a] = returned[b] => a = b
        /\ Range(returned) = Range(results)
        /\ \A a, b \in 1..Len(returned) :
              a < b => FirstIndex(results, returned[a])
                          < FirstIndex(results, returned[b])

\* VISIT 'u'; SCRAPE p; SCRAPE 1 p; has run against <p>x<p>y: the first p
\* was scraped twice and is returned once, before the second p.
C17_Witness ==
    /\ hpc = "returned"
    /\ html = ParagraphDoc(2, FALSE)
    /\ results = <<3, 4, 3>>
    /\ returned = <<3, 4>>

\* C18 as stated: the csv export writes a scalar that is nested in a
\* dict-valued field of a node's projection under the path of its keys
\* (extract_flags.table), so that the column of a nested scalar names its
\* parent field.
C18_CsvColumnsAreKeyPaths ==
    [][(Len(exported') = Len(exported) + 1
            /\ Last(exported').file_type = "csv"
            /\ ~heap[Head(Last(exported').nodes)].extract_flags.table) =>
          LET rows == Last(exported').content.rows
              d == ToDict(heap, Head(Last(exported').nodes), FALSE).value
          IN  \A f \in DOMAIN d \cap DictValued : \A k \in DOMAIN d[f] :
                  \E i \in 1..Len(rows) :
                      /\ <<f, k>> \in DOMAIN rows[i]
                      /\ rows[i][<<f, k>>] = d[f][k]]_vars

(***************************************************************************)
(* Claims about syntax errors.                                             *)
(***************************************************************************)
\* The scripts without a syntax error: the concatenations of well-formed
\* statements.
WellFormedScripts == ScriptsOf(WellFormedStatements)

C13_UnterminatedScriptIsSyntaxError ==
    (script # <<>> /\ Last(script).type # "SEMICOLON" /\ ipc # "run") =>
        ipc = "GoatspeakInterpreterException"

(***************************************************************************)
(* Claims about nested inline elements, the tree after the parse and the   *)
(* rules of projection.                                                    *)
(***************************************************************************)
\* s ends with the text t.
EndsWith(s, t) ==
    Len(s) >= Len(t) /\ SubSeq(s, Len(s) - Len(t) + 1, Len(s)) = t

\* The nearest element at or above n that is not inline.
RECURSIVE EnclosingBlock(_, _)
EnclosingBlock(hp, n) ==
    IF ~hp[n].is_inline \/ hp[n].parent = 0 THEN n
    ELSE EnclosingBlock(hp, hp[n].parent)

\* C21 as stated: text inside a chain of nested inline elements is, once it
\* is parsed, in the body of the enclosing element that is not inline,
\* whatever the depth of the chain.
C21_NestedInlineTextReachesBlock ==
    (gpc = "feeding" /\ html # <<>> /\ Last(html).kind = "data"
        /\ Strip(Last(html).data) # <<>> /\ stack # <<>>) =>
        EndsWith(heap[EnclosingBlock(heap, Last(stack))].body,
                 Strip(Last(html).data))

\* C22 as stated: to_dict takes the rules in the order table flag,
\* ignore-children, field list, full projection: for a node without the
\* table flag, with ignore-children set and with a field list, the result
\* is the full projection without the children key, not the projection of
\* the listed fields.
C22_IgnoreChildrenBeforeFieldList ==
    (output.call = "to_dict" /\ ~output.raised
        /\ ~heap[output.node].extract_flags.table
        /\ heap[output.node].extract_flags.ignore_children
        /\ heap[output.node].extract_fields # <<>>) =>
        output.value = HandleIgnoreChildren(heap, output.node).value

\* What the parse gave node n: tag, attributes (none here), text, has-text
\* flag, children and parent.
Built(hp, n) ==
    [tag_type |-> hp[n].tag_type, body |-> hp[n].body,
     has_data |-> hp[n].has_data, children |-> hp[n].children,
     parent |-> hp[n].parent]

\* C23 as stated: once the tree is built no operation on it, projection
\* with or without the table flag included, changes a node's tag, body,
\* has-text flag, children or parent; only the directives change.
C23_BuiltTreeIsNotChanged ==
    [][(gpc = "grown" /\ gpc' = "grown" /\ Len(heap') = Len(heap)) =>
          \A n \in 1..Len(heap) : Built(heap', n) = Built(heap, n)]_vars

\* The number of places at which the text t occurs in s.
Occurrences(s, t) ==
    Cardinality({i \in 1..(Len(s) - Len(t) + 1) : SubSeq(s, i, i + Len(t) - 1) = t})

\* The inline children of node n that hold text.
InlineTextChildren(n) ==
    {c \in Range(heap[n].children) : heap[c].is_inline /\ heap[c].body # <<>>}

\* No node's text has changed since the parse.
BodiesAsParsed ==
    LET parsed == GrowTree(<<>>, html).heap
    IN  \A m \in 1..Len(heap) : heap[m].body = parsed[m].body

\* C30 as stated: in the first table projection of a table the Gardener
\* built, the value of a cell that holds its text in an inline element has
\* that text exactly once.
C30_InlineCellTextOccursOnce ==
    [][(BodiesAsParsed /\ output'.call = "to_dict" /\ ~output'.raised
            /\ heap[output'.node].tag_type = "table"
            /\ heap[output'.node].extract_flags.table) =>
          LET trs == GetDescendants(heap, output'.node, "tr")
              header == Strip(heap'[HeaderCellsOf(trs[1])[1]].body)
          IN  \A r \in 1..(Len(trs) - 1) :
                  LET cell == DataCellsOf(trs[r + 1])[1]
                  IN  \A c \in InlineTextChildren(cell) :
                          Occurrences(output'.value[r][header], heap[c].body) = 1]_vars

(***************************************************************************)
(* Claims about feast.                                                     *)
(***************************************************************************)
\* C24 as stated: a scrape of t IN POSITION = N matches the N-th t node in
\* preorder of the whole document tree, also when it runs after a select
\* that rebased the root: every node SELECT a; SCRAPE t IN POSITION = N;
\* returns is the N-th t node of the document.
C24_PositionCountsWholeTree ==
    (gpc = "grown" /\ commands \in SelectPositionScrapes) =>
        LET cmd == commands[2]
            all == TagNodes(cmd.element)
        IN  \A i \in 1..Len(results) :
                /\ cmd.conditions[1].value \in 1..Len(all)
                /\ results[i] = all[cmd.conditions[1].value]

\* The index of the first select of cmds, 0 when it has none.
FirstSelect(cmds) ==
    IF \E i \in 1..Len(cmds) : cmds[i].action = "select"
    THEN CHOOSE i \in 1..Len(cmds) :
            /\ cmds[i].action = "select"
            /\ \A j \in 1..(i - 1) : cmds[j].action # "select"
    ELSE 0

\* The matches of the commands of cmds against rt, one command after the
\* other.
RECURSIVE ExecuteAll(_, _, _)
ExecuteAll(hp, rt, cmds) ==
    IF cmds = <<>> THEN <<>>
    ELSE GrazeExecute(hp, Head(cmds), rt) \o ExecuteAll(hp, rt, Tail(cmds))

\* feast(r, cmds) for each r of roots, one after the other.
RECURSIVE FeastFromEach(_, _, _)
FeastFromEach(hp, roots, cmds) ==
    IF roots = <<>> THEN <<>>
    ELSE Feast(hp, Head(roots), cmds) \o FeastFromEach(hp, Tail(roots), cmds)

\* C26: for a graze list whose first select is its i-th command, feast
\* returns the matches of the scrapes before it against the root, followed,
\* for each node the select matches against the root, in document order, by
\* the feast of the commands after it from that node; a list without a
\* select returns the matches of its scrapes, and a select that ends the
\* list adds no node.
C26_FeastRebasesAtFirstSelect ==
    (gpc = "grown" /\ commands # <<>>) =>
        LET i == FirstSelect(commands)
        IN  /\ i = 0 => results = ExecuteAll(heap, root, commands)
            /\ i > 0 =>
                 results =
                    ExecuteAll(heap, root, SubSeq(commands, 1, i - 1))
                      \o FeastFromEach(heap,
                            GrazeExecute(heap, commands[i], root),
                            SubSeq(commands, i + 1, Len(commands)))
            /\ (i > 0 /\ i = Len(commands)) =>
                 results = ExecuteAll(heap, root, SubSeq(commands, 1, i - 1))

\* SCRAPE p; SELECT div; SCRAPE p; has run on <p><div><p>: both p nodes
\* from the root, then the p node inside the div.
C26_Witness ==
    /\ gpc = "grown"
    /\ html = <<StartEvent("p"), StartEvent("div"), StartEvent("p")>>
    /\ commands = <<GrazeCommand("scrape", 0, "p", <<>>),
                    GrazeCommand("select", 0, "div", <<>>),
                    GrazeCommand("scrape", 0, "p", <<>>)>>
    /\ results = <<3, 5, 5>>

(***************************************************************************)
(* Claims about successive parses.                                         *)
(***************************************************************************)
\* The id i of a tree built on an empty heap, in a tree built behind off
\* earlier nodes; 0 is None.
ShiftId(i, off) == IF i = 0 THEN 0 ELSE i + off

\* Node a is node b of a tree built on an empty heap, off nodes later: the
\* same tag, text, has-text flag and retrieval instruction, the same places
\* for the parent and the children.
SameNodeShifted(a, b, off) ==
    /\ a.tag_type = b.tag_type
    /\ a.body = b.body
    /\ a.has_data = b.has_data
    /\ a.retrieval_instructions = b.retrieval_instructions
    /\ a.parent = ShiftId(b.parent, off)
    /\ a.children = [k \in 1..Len(b.children) |-> ShiftId(b.children[k], off)]

\* C25: the tree grow_tree returns for a document on a Gardener that has
\* parsed before has the shape, the texts and the retrieval-instruction
\* positions of the tree a fresh Gardener returns for that document, and no
\* node of it is a node of an earlier tree or linked to one.
C25_GrowTreeStartsAfresh ==
    (hpc = "queries" /\ query_index = 0) =>
        LET fresh == GrowTree(<<>>, html)
            off == Len(heap) - Len(fresh.heap)
        IN  /\ off >= 0
            /\ root = ShiftId(fresh.root, off)
            /\ \A i \in 1..Len(fresh.heap) :
                  SameNodeShifted(heap[off + i], fresh.heap[i], off)
            /\ \A m \in 1..off :
                  /\ heap[m].parent <= off
                  /\ \A c \in Range(heap[m].children) : c <= off

\* The second block of a script has been fetched and parsed: <p>x<p>y
\* behind an earlier tree with two p nodes; its second p is stamped 2.
C25_Witness ==
    /\ hpc = "queries" /\ query_index = 0
    /\ block_index = 2
    /\ html = ParagraphDoc(2, FALSE)
    /\ Len(heap) = 8
    /\ heap[3].tag_type = "p" /\ heap[4].tag_type = "p"
    /\ root = 5
    /\ heap[8].retrieval_instructions.position = 2
    /\ heap[8].parent = 6

(***************************************************************************)
(* Claims about scripts without a VISIT and about the commands kept.       *)
(***************************************************************************)
\* The number of queries the statements form: a scrape or select that
\* follows a scrape, an extract or an output starts a new one.
QueryCount(stmts) ==
    1 + Cardinality({i \in 1..(Len(stmts) - 1) :
                        /\ stmts[i].action \in {"scrape", "extract", "output"}
                        /\ stmts[i + 1].action \in {"scrape", "select"}})

\* C27 as stated: interpreting a script without a VISIT statement and with
\* k >= 1 queries ends without an error and returns one Block, made for the
\* script, whose query list holds the k queries in the order of the script.
C27_ScriptWithoutVisitGivesOneBlock ==
    (script # <<>> /\ VisitPositions(script, 1) = <<>> /\ ipc # "run") =>
        /\ ipc = "done"
        /\ Len(goatspeak_blocks) = 1
        /\ Len(goatspeak_blocks[1].query_list) = QueryCount(script)
        /\ QueriesInOrder(goatspeak_blocks[1])

\* The queries of the returned Blocks that hold the i-th statement as a
\* graze command, an extract or an output.
QueriesHolding(i) ==
    {q \in (1..Len(goatspeak_blocks)) \X (1..Len(script)) :
        /\ q[2] <= Len(goatspeak_blocks[q[1]].query_list)
        /\ i \in QuerySids(goatspeak_blocks[q[1]].query_list[q[2]])}

\* C28 as stated: every select, scrape, extract and output command
\* interpret parsed is in exactly one Query of the Blocks it returns,
\* whatever the order of the statements.
C28_EveryCommandInOneQuery ==
    ipc = "done" =>
        \A i \in 1..Len(script) :
            script[i].action \in {"select", "scrape", "extract", "output"} =>
                Cardinality(QueriesHolding(i)) = 1

\* The extraction directives of node n: the field list and the three flags.
Directives(hp, n) ==
    [extract_fields |-> hp[n].extract_fields, extract_flags |-> hp[n].extract_flags]

\* The directives of a node no Extract command has configured.
NoDirectives == [extract_fields |-> <<>>, extract_flags |-> NoFlags]

\* C29 as stated: to_dict of a node leaves the directives of the other
\* configured nodes as they are: a descendant that holds the directives of
\* the same Extract command as the node keeps them, and its projection
\* after the node was projected is its projection before.
C29_ProjectionKeepsOtherDirectives ==
    [][(output'.call = "to_dict" /\ ~output'.raised) =>
          \A m \in Range(GetDescendants(heap, output'.node, "")) :
              (/\ Directives(heap, m) = Directives(heap, output'.node)
               /\ Directives(heap, m) # NoDirectives) =>
                  /\ Directives(heap', m) = Directives(heap, m)
                  /\ ToDict(heap', m, FALSE).value = ToDict(heap, m, FALSE).value]_vars


Init == InterpInit

Next == InterpNext

Spec == Init /\ [][Next]_vars

=============================================================================
